---- MODULE Spec2Model ----
(***************************************************************************)
(* A model of pi-team's coordination daemon (teamd): the persistent store  *)
(* of src/src/teamd/store.ts (task state machine, lease/epoch fencing,     *)
(* idempotent creation, inbox fan-out, audit log, threads, can-write), the *)
(* single-instance lock of the daemon bootstrap (src/unnamed/part_007),    *)
(* the guard of the agent extension (src/src/extension), the HTTP front    *)
(* of the daemon (src/unnamed/part_008) and the path-safe I/O layer        *)
(* (safeJoin, writeJsonAtomic).                                            *)
(*                                                                         *)
(* Conventions.                                                            *)
(*  - A nullable field (T | null) is a sequence of length 0 or 1.          *)
(*  - A task id task-NNNN is its number N; tasks are never deleted, so the *)
(*    ids on disk are 1..Len(tasks).                                       *)
(*  - A path is the sequence of its "/"-separated segments, so "src/" is   *)
(*    <<"src", "">> and "/src" is <<"", "src">>.                           *)
(*  - Time is the integer clock `now` (Date.now()); one unit stands for an *)
(*    arbitrary number of milliseconds.                                    *)
(*  - Every mutation runs inside enqueueMutation, so mutations are atomic  *)
(*    with respect to each other; what is not inside the queue (the inbox  *)
(*    creation of fetchInbox) is split into its read and its write.        *)
(*  - A mutation's file writes are a plan (a sequence of writes); an I/O   *)
(*    failure cuts the plan after some prefix and answers 500.             *)
(***************************************************************************)
EXTENDS Integers, Sequences, FiniteSets, TLC

VARIABLES
    now,        \* Date.now()
    tasks,      \* tasks/<id>.json: sequence of task records, index = task number
    idem,       \* idempotency/create-task.json: key -> task number, 0 = no entry
    audit,      \* audit/events.jsonl
    inbox,      \* inboxes/<agent>.json (exists = FALSE: no file)
    fetchPc,    \* per agent: in-flight fetchInbox calls that found no inbox file
    resp,       \* the response of the request handled last
    lastCursor, \* per agent: highest cursor assigned to an inbox event so far
    faults,     \* number of I/O failures the environment may still inject
    lockFile,   \* <team>/.teamd.lock: << >> or <<[owner, pid]>>
    procs,      \* per daemon process: its position in startTeamd
    threads,    \* threads/index.json: sequence of thread records, index = thread number
    threadFile, \* threads/<id>.jsonl, per thread number: the bytes, as a sequence of pieces
    posted,     \* per thread number: the ids of the messages whose post was answered 201
    guard,      \* the decision the tool_call handler of the extension took last
    mutationTail, \* the promise chain of enqueueMutation: the operations accepted and not finished
    applied,    \* history: for every file write made through the chain, which operation made it
    request,    \* the HTTP request that reached the daemon last
    io,         \* a call into the I/O layer: its inputs, the files it sees, how far it got
    team,       \* team.json: the ids of the agents it configures
    poller      \* an agent's inbox poller: its cursor, its requests in flight, what it forwarded

storeVars == <<now, tasks, idem, audit, inbox, fetchPc, resp, lastCursor, faults>>
lockVars == <<lockFile, procs>>
threadVars == <<threads, threadFile, posted>>
queueVars == <<mutationTail, applied>>
httpVars == <<request>>
ioVars == <<io>>
teamVars == <<team>>
pollVars == <<poller>>
vars == <<now, tasks, idem, audit, inbox, fetchPc, resp, lastCursor, faults, lockFile, procs,
          threads, threadFile, posted, guard, mutationTail, applied, request,
          io, team, poller>>

----------------------------------------------------------------------------
(* Bounds of the model *)

MaxTasks == 2
MaxTime == 2
MaxEpoch == 2
MaxAudit == 4
MaxFaults == 1
MaxFetches == 2
MaxProcs == 3
MaxThreads == 1
MaxMessages == 3

(* Inputs *)

Agents == {"a", "b"}
Keys == {"k1"}
NoKey == ""
Titles == {"", "t"}
TaskIds == 1..MaxTasks
DepInputs == {{}, {1}}

\* store.ts:243, scaled: the default lease lasts two clock units
defaultLeaseTtlMs == 2

Null == << >>
Some(x) == <<x>>

\* ttlMs of a claim or renew body: absent, or a number (the server accepts
\* any finite number)
TtlInputs == {Null, Some(0)}

----------------------------------------------------------------------------
(* Paths: normalizePathPrefix and resourceMatchesPath *)

\* node:path posix normalizeString: drop "" and ".", resolve ".."
RECURSIVE normalizeString(_, _, _)
normalizeString(segs, acc, allowAboveRoot) ==
    IF segs = << >> THEN acc
    ELSE LET s == Head(segs)
             rest == Tail(segs)
         IN  IF s = "" \/ s = "."
             THEN normalizeString(rest, acc, allowAboveRoot)
             ELSE IF s = ".."
             THEN IF acc /= << >> /\ acc[Len(acc)] /= ".."
                  THEN normalizeString(rest, SubSeq(acc, 1, Len(acc) - 1), allowAboveRoot)
                  ELSE IF allowAboveRoot
                  THEN normalizeString(rest, Append(acc, ".."), allowAboveRoot)
                  ELSE normalizeString(rest, acc, allowAboveRoot)
             ELSE normalizeString(rest, Append(acc, s), allowAboveRoot)

\* normalize(p), then strip a leading "./", leading "/"s and trailing "/"s.
\* The result is the list of segments; "." is <<".">> and "" is << >>.
normalizePathPrefix(p) ==
    LET isAbsolute == Len(p) >= 2 /\ p[1] = ""
        trailing == Len(p) >= 2 /\ p[Len(p)] = ""
        segs == normalizeString(p, << >>, ~isAbsolute)
    IN  IF segs = << >>
        THEN IF isAbsolute \/ trailing THEN << >> ELSE <<".">>
        ELSE segs

\* a variant that matches a resource only against the path itself
resourceMatchesPathExact(resource, target) ==
    resource = << >> \/ resource = target

resourceMatchesPath(resource, target) ==
    \/ resource = << >>
    \/ /\ Len(resource) <= Len(target)
       /\ SubSeq(target, 1, Len(resource)) = resource

----------------------------------------------------------------------------
(* Records of the store *)

NoInbox == [exists |-> FALSE, nextCursor |-> 0, events |-> << >>]
\* readInbox's initialState
initialState == [exists |-> TRUE, nextCursor |-> 0, events |-> << >>]

\* buildDefaultTeam: the record initialize writes when team.json is missing
buildDefaultTeam == [agents |-> {}]
\* the ids of team.agents; createTeam never replaces an existing team.json
teamAgents == team.agents

Lease(holder, epoch, expiresAt) ==
    [holder |-> holder, epoch |-> epoch, expiresAt |-> expiresAt]

\* What the HTTP layer answers, with the clock value at which the request
\* was handled
Response(op, task, agent, status, code) ==
    [op |-> op, task |-> task, agent |-> agent, status |-> status, code |-> code,
     at |-> now, epoch |-> 0, created |-> FALSE, events |-> << >>, nextSince |-> 0,
     allow |-> FALSE, path |-> << >>, thread |-> 0, messages |-> << >>]

NoResponse == Response("none", 0, "", 0, "")

Exists(t) == t \in DOMAIN tasks

isLeaseExpiredWrong(lease) == now > lease.expiresAt + 1
isLeaseExpired(lease) == now >= lease.expiresAt

\* The whole persisted state, as one value
disk ==
    [tasks |-> tasks, idem |-> idem, audit |-> audit, inbox |-> inbox,
     threads |-> threads, threadFile |-> threadFile]

----------------------------------------------------------------------------
(* File writes.  A mutation plans its writes in the order the code issues  *)
(* them; writeJsonAtomic and appendJsonl each either happen or do not.     *)

WTask(id, rec) == [kind |-> "task", id |-> id, rec |-> rec]
WIdem(key, id) == [kind |-> "idem", key |-> key, id |-> id]
WAudit(type, id, actor) ==
    [kind |-> "audit", ev |-> [type |-> type, taskId |-> id, actor |-> actor]]
WInboxInit(agent) == [kind |-> "inboxInit", agent |-> agent]
WInboxEvent(agent, type, id, actor) ==
    [kind |-> "inboxEvent", agent |-> agent, type |-> type, taskId |-> id, actor |-> actor]

WThreadIndex(index) == [kind |-> "threadIndex", threads |-> index]
WThreadAppend(thread, id) == [kind |-> "threadAppend", thread |-> thread, id |-> id]

\* The pieces of a .jsonl file: the whole JSON text of a record, a proper
\* and non-empty prefix of that text, and the newline
JsonText(id) == [kind |-> "json", id |-> id]
JsonPrefix(id) == [kind |-> "prefix", id |-> id]
Newline == [kind |-> "nl", id |-> 0]

\* appendJsonl: open with flag "a", write JSON.stringify(obj) + "\n"
appendJsonl(file, id) == file \o <<JsonText(id), Newline>>

\* appendInboxEvent's body for one recipient: cursor = nextCursor + 1
appendedInbox(state, w) ==
    LET cursor == state.nextCursor + 1
    IN  [exists |-> TRUE,
         nextCursor |-> cursor,
         events |-> Append(state.events,
                           [cursor |-> cursor, type |-> w.type,
                            taskId |-> w.taskId, actor |-> w.actor])]

ApplyWrite(d, w) ==
    CASE w.kind = "task" ->
            [d EXCEPT !.tasks = IF w.id \in DOMAIN d.tasks
                                THEN [d.tasks EXCEPT ![w.id] = w.rec]
                                ELSE Append(d.tasks, w.rec)]
      [] w.kind = "idem" -> [d EXCEPT !.idem[w.key] = w.id]
      [] w.kind = "audit" -> [d EXCEPT !.audit = Append(@, w.ev)]
      [] w.kind = "inboxInit" -> [d EXCEPT !.inbox[w.agent] = initialState]
      [] w.kind = "inboxEvent" ->
            [d EXCEPT !.inbox[w.agent] = appendedInbox(d.inbox[w.agent], w)]
      [] w.kind = "threadIndex" -> [d EXCEPT !.threads = w.threads]
      [] w.kind = "threadAppend" ->
            [d EXCEPT !.threadFile[w.thread] = appendJsonl(@, w.id)]

RECURSIVE ApplyWrites(_, _)
ApplyWrites(d, plan) ==
    IF plan = << >> THEN d
    ELSE ApplyWrites(ApplyWrite(d, Head(plan)), Tail(plan))

\* the characters of the identifiers the model uses
agentIdChars(agentId) ==
    CASE agentId = "a" -> <<"a">>
      [] agentId = "b" -> <<"b">>
      [] agentId = "../x" -> <<".", ".", "/", "x">>
      [] OTHER -> << >>

\* the characters of [a-zA-Z0-9._-] the identifiers above are spelled with
AgentIdAlphabet == {"a", "b", "x", ".", "_", "-"}

\* ensureAgentId's test: /^[a-zA-Z0-9._-]+$/u
ensureAgentId(agentId) ==
    /\ agentIdChars(agentId) /= << >>
    /\ \A i \in DOMAIN agentIdChars(agentId) : agentIdChars(agentId)[i] \in AgentIdAlphabet

\* The permutations of a set: the orders in which readdir may list it
Orders(S) ==
    {o \in [1..Cardinality(S) -> S] : \A i, j \in 1..Cardinality(S) : o[i] = o[j] => i = j}

\* listInboxAgents
listInboxAgents == {a \in DOMAIN inbox : inbox[a].exists}

\* a broadcast that reaches the configured agents only
broadcastRecipientsConfigured == teamAgents

\* broadcastRecipients: the team's agents, then the agents with an inbox file
broadcastRecipients == teamAgents \cup listInboxAgents

\* appendInboxEvent(recipients, event): per recipient, ensureAgentId, readInbox
\* (which creates a missing inbox) and then the write of the appended state
RECURSIVE inboxPlan(_, _, _, _)
inboxPlan(order, type, id, actor) ==
    IF order = << >> \/ ~ensureAgentId(Head(order)) THEN << >>
    ELSE LET r == Head(order)
         IN  (IF inbox[r].exists THEN << >> ELSE <<WInboxInit(r)>>)
             \o <<WInboxEvent(r, type, id, actor)>>
             \o inboxPlan(Tail(order), type, id, actor)

\* appendInboxEvent throws INVALID_AGENT_ID at the first recipient that fails
\* ensureAgentId (store.ts:914), after the writes made so far
appendInboxEventThrows(order) == \E i \in DOMAIN order : ~ensureAgentId(order[i])

\* what the caller answers once appendInboxEvent has returned or thrown
afterInbox(order, ok) ==
    IF appendInboxEventThrows(order)
    THEN [ok EXCEPT !.status = 400, !.code = "INVALID_AGENT_ID", !.epoch = 0,
                    !.messages = << >>]
    ELSE ok

\* The highest cursor among the events a plan prefix appends, per agent
cursorsAfter(d) ==
    [a \in DOMAIN lastCursor |->
        LET evs == d.inbox[a].events
            top == IF evs = << >> THEN 0 ELSE evs[Len(evs)].cursor
        IN  IF top > lastCursor[a] THEN top ELSE lastCursor[a]]

\* The messages a plan appends to a thread file, in the plan's order
appendedTo(thread, plan) ==
    LET appends == SelectSeq(plan, LAMBDA w : w.kind = "threadAppend" /\ w.thread = thread)
    IN  [i \in 1..Len(appends) |-> appends[i].id]

\* Run the first n writes of the plan; the request fails with 500 unless
\* all of them happened
CommitPrefix(plan, n, ok) ==
    LET d == ApplyWrites(disk, SubSeq(plan, 1, n))
    IN  /\ faults' = IF n = Len(plan) THEN faults ELSE faults - 1
        /\ tasks' = d.tasks
        /\ idem' = d.idem
        /\ audit' = d.audit
        /\ inbox' = d.inbox
        /\ threads' = d.threads
        /\ threadFile' = d.threadFile
        /\ posted' = IF n = Len(plan)
                     THEN [th \in DOMAIN posted |-> posted[th] \o appendedTo(th, plan)]
                     ELSE posted
        /\ lastCursor' = cursorsAfter(d)
        /\ resp' = IF n = Len(plan)
                   THEN ok
                   ELSE Response(ok.op, ok.task, ok.agent, 500, "INTERNAL_ERROR")

\* All the writes happen, or one of them fails and the later ones are not
\* attempted
Commit(plan, ok) ==
    \/ CommitPrefix(plan, Len(plan), ok)
    \/ /\ faults > 0
       /\ \E n \in 0..(Len(plan) - 1) : CommitPrefix(plan, n, ok)

Reject(r) ==
    /\ resp' = r
    /\ UNCHANGED <<tasks, idem, audit, inbox, lastCursor, faults, threads, threadFile, posted>>

----------------------------------------------------------------------------
(* createTask *)

\* The raw resource lists a request may carry (each path a list of segments)
ResourceInputs ==
    { << >>,
      << <<"src", "">> >>,
      << <<".", "src", "io">>, <<"src", "io", "">> >>,
      << <<"", "src">>, <<".", "">> >> }

\* resources of a task whose lease canWrite is asked about
LeasedResourceInputs ==
    { << <<"src", "">> >>,
      << <<"..", "src">>, <<"docs", ".", "">> >> }

\* [...new Set(resources.map(normalizePathPrefix).filter(Boolean))]
normalizedResources(raw) ==
    {normalizePathPrefix(raw[i]) : i \in DOMAIN raw} \ {<< >>}

\* deps.every(dep => existingTasks.find(dep)?.status === "completed")
areDepsComplete(deps) ==
    \A d \in deps : Exists(d) /\ tasks[d].status = "completed"

newTask(title, deps, resources) ==
    [title |-> title,
     status |-> IF deps /= {} /\ ~areDepsComplete(deps) THEN "blocked" ELSE "pending",
     owner |-> Null,
     deps |-> deps,
     resources |-> normalizedResources(resources),
     lease |-> Null,
     epoch |-> 0]

\* The idempotency lookup: the key is recorded and its task file exists
recordedTask(key) ==
    IF key /= NoKey /\ idem[key] /= 0 /\ Exists(idem[key]) THEN idem[key] ELSE 0

CreateTask(title, deps, resources, key) ==
    LET taskId == Len(tasks) + 1
        task == newTask(title, deps, resources)
        plan == <<WTask(taskId, task)>>
                \o (IF key /= NoKey THEN <<WIdem(key, taskId)>> ELSE << >>)
                \o <<WAudit("task_created", taskId, "teamd")>>
    IN  /\ UNCHANGED <<now, fetchPc, lockFile, procs, guard, queueVars, httpVars, ioVars, teamVars, pollVars>>
        /\ IF title = ""
           THEN Reject(Response("create", 0, "", 400, "INVALID_TASK"))
           ELSE IF recordedTask(key) /= 0
           THEN Reject([Response("create", recordedTask(key), "", 200, "")
                          EXCEPT !.created = FALSE])
           ELSE /\ Len(tasks) < MaxTasks
                /\ Len(audit) < MaxAudit
                /\ Commit(plan, [Response("create", taskId, "", 201, "")
                                   EXCEPT !.created = TRUE])

----------------------------------------------------------------------------
(* claimTask, renewTask, completeTask, failTask *)

\* a variant that never resets
resetIfExpiredNever(task) == task

\* a variant that resets whatever the status, also when there is no lease
resetIfExpiredAnyStatus(task) ==
    IF task.lease = Null \/ isLeaseExpired(task.lease[1])
    THEN [task EXCEPT !.status = "pending", !.owner = Null, !.lease = Null]
    ELSE task

\* claimTask's reset of an expired lease (store.ts:398-402)
resetIfExpired(task) ==
    IF task.status = "in_progress" /\ task.lease /= Null /\ isLeaseExpired(task.lease[1])
    THEN [task EXCEPT !.status = "pending", !.owner = Null, !.lease = Null]
    ELSE task

\* input.ttlMs ?? this.defaultLeaseTtlMs
ttlOf(ttlMs) == IF ttlMs = Null THEN defaultLeaseTtlMs ELSE ttlMs[1]

\* a variant that leaves the owner as it was
claimedKeepsOwner(task, agentId, ttlMs) ==
    [task EXCEPT !.status = "in_progress",
                 !.lease = Some(Lease(agentId, task.epoch + 1, now + ttlOf(ttlMs))),
                 !.epoch = task.epoch + 1]

\* store.ts:408-420
claimedKeepsEpoch(task, agentId, ttlMs) ==
    [task EXCEPT !.status = "in_progress",
                 !.owner = Some(agentId),
                 !.lease = Some(Lease(agentId, task.epoch, now + ttlOf(ttlMs)))]
claimed(task, agentId, ttlMs) ==
    [task EXCEPT !.status = "in_progress",
                 !.owner = Some(agentId),
                 !.lease = Some(Lease(agentId, task.epoch + 1, now + ttlOf(ttlMs))),
                 !.epoch = task.epoch + 1]

ClaimTask(t, agentId, ttlMs) ==
    /\ UNCHANGED <<now, fetchPc, lockFile, procs, guard, queueVars, httpVars, ioVars, teamVars, pollVars>>
    /\ IF ~Exists(t)
       THEN Reject(Response("claim", t, agentId, 404, "TASK_NOT_FOUND"))
       ELSE LET task == resetIfExpired(tasks[t])
                next == claimed(task, agentId, ttlMs)
            IN  IF task.status /= "pending"
                THEN Reject(Response("claim", t, agentId, 409, "TASK_NOT_CLAIMABLE"))
                ELSE /\ task.epoch < MaxEpoch
                     /\ Len(audit) < MaxAudit
                     /\ \E order \in Orders(broadcastRecipients) :
                           Commit(<<WTask(t, next), WAudit("task_claimed", t, agentId)>>
                                    \o inboxPlan(order, "task_claimed", t, agentId),
                                  afterInbox(order, [Response("claim", t, agentId, 200, "")
                                                       EXCEPT !.epoch = next.epoch]))

\* The checks renewTask and finalizeTask share (store.ts:445-459, 970-984),
\* in the code's order; "" when the request passes them all
leaseCheckNoEpoch(task, agentId, epoch) ==
    IF task.status /= "in_progress" \/ task.lease = Null
    THEN <<409, "TASK_NOT_IN_PROGRESS">>
    ELSE IF isLeaseExpired(task.lease[1]) THEN <<403, "LEASE_EXPIRED">>
    ELSE IF task.lease[1].holder /= agentId THEN <<403, "LEASE_HOLDER_MISMATCH">>
    ELSE <<200, "">>
\* the checks without the test of the lease's expiry
leaseCheckNoExpiry(task, agentId, epoch) ==
    IF task.status /= "in_progress" \/ task.lease = Null
    THEN <<409, "TASK_NOT_IN_PROGRESS">>
    ELSE IF task.lease[1].holder /= agentId THEN <<403, "LEASE_HOLDER_MISMATCH">>
    ELSE IF task.lease[1].epoch /= epoch THEN <<409, "EPOCH_MISMATCH">>
    ELSE <<200, "">>

leaseCheck(task, agentId, epoch) ==
    IF task.status /= "in_progress" \/ task.lease = Null
    THEN <<409, "TASK_NOT_IN_PROGRESS">>
    ELSE IF isLeaseExpired(task.lease[1]) THEN <<403, "LEASE_EXPIRED">>
    ELSE IF task.lease[1].holder /= agentId THEN <<403, "LEASE_HOLDER_MISMATCH">>
    ELSE IF task.lease[1].epoch /= epoch THEN <<409, "EPOCH_MISMATCH">>
    ELSE <<200, "">>

\* store.ts:461-465
renewed(task, ttlMs) ==
    [task EXCEPT !.lease = Some([task.lease[1] EXCEPT !.expiresAt = now + ttlOf(ttlMs)])]

RenewTask(t, agentId, epoch, ttlMs) ==
    /\ UNCHANGED <<now, fetchPc, lockFile, procs, guard, queueVars, httpVars, ioVars, teamVars, pollVars>>
    /\ IF ~Exists(t)
       THEN Reject(Response("renew", t, agentId, 404, "TASK_NOT_FOUND"))
       ELSE LET check == leaseCheck(tasks[t], agentId, epoch)
                next == renewed(tasks[t], ttlMs)
                plan == <<WTask(t, next), WAudit("task_renewed", t, agentId)>>
            IN  IF check[1] /= 200
                THEN Reject(Response("renew", t, agentId, check[1], check[2]))
                ELSE /\ Len(audit) < MaxAudit
                     /\ Commit(plan, [Response("renew", t, agentId, 200, "")
                                        EXCEPT !.epoch = next.epoch])

\* a variant that records a failure as a cancellation
finalizedAsCanceled(task, finalStatus) ==
    [task EXCEPT !.status = IF finalStatus = "failed" THEN "canceled" ELSE finalStatus,
                 !.lease = Null]

\* store.ts:986-993
finalizedKeepsLease(task, finalStatus) ==
    [task EXCEPT !.status = finalStatus]
finalized(task, finalStatus) ==
    [task EXCEPT !.status = finalStatus, !.lease = Null]

\* a variant that looks for dependents among the pending tasks
dependentsToUnlockPending(t) ==
    {u \in DOMAIN tasks :
        /\ tasks[u].status = "pending"
        /\ t \in tasks[u].deps
        /\ \A d \in tasks[u].deps :
              d = t \/ (Exists(d) /\ tasks[d].status = "completed")}

\* unlockDependents(completedTaskId): the blocked tasks that depend on it
\* and whose dependencies are all completed once it is
dependentsToUnlock(t) ==
    {u \in DOMAIN tasks :
        /\ tasks[u].status = "blocked"
        /\ t \in tasks[u].deps
        /\ \A d \in tasks[u].deps :
              d = t \/ (Exists(d) /\ tasks[d].status = "completed")}

\* one writeTask and one audit record per unblocked task, in listing order
RECURSIVE unlockPlan(_, _)
unlockPlan(order, actor) ==
    IF order = << >> THEN << >>
    ELSE <<WTask(Head(order), [tasks[Head(order)] EXCEPT !.status = "pending"]),
           WAudit("task_unblocked", Head(order), actor)>>
         \o unlockPlan(Tail(order), actor)

\* finalizeTask, followed for a completion by unlockDependents
FinalizeTask(op, finalStatus, t, agentId, epoch) ==
    /\ UNCHANGED <<now, fetchPc, lockFile, procs, guard, queueVars, httpVars, ioVars, teamVars, pollVars>>
    /\ IF ~Exists(t)
       THEN Reject(Response(op, t, agentId, 404, "TASK_NOT_FOUND"))
       ELSE LET check == leaseCheck(tasks[t], agentId, epoch)
                next == finalized(tasks[t], finalStatus)
                type == IF finalStatus = "completed" THEN "task_completed" ELSE "task_failed"
                unlocked == IF finalStatus = "completed" THEN dependentsToUnlock(t) ELSE {}
            IN  IF check[1] /= 200
                THEN Reject(Response(op, t, agentId, check[1], check[2]))
                ELSE /\ Len(audit) < MaxAudit
                     /\ \E order \in Orders(broadcastRecipients),
                           unlockOrder \in Orders(unlocked) :
                           Commit(<<WTask(t, next), WAudit(type, t, agentId)>>
                                    \o inboxPlan(order, type, t, agentId)
                                    \o (IF appendInboxEventThrows(order) THEN << >>
                                        ELSE unlockPlan(unlockOrder, agentId)),
                                  afterInbox(order, [Response(op, t, agentId, 200, "")
                                                       EXCEPT !.epoch = next.epoch]))

CompleteTask(t, agentId, epoch) == FinalizeTask("complete", "completed", t, agentId, epoch)

FailTask(t, agentId, epoch) == FinalizeTask("fail", "failed", t, agentId, epoch)

Tick ==
    /\ now < MaxTime
    /\ now' = now + 1
    /\ UNCHANGED <<tasks, idem, audit, inbox, fetchPc, resp, lastCursor, faults, lockFile,
                   procs, threadVars, guard, queueVars, httpVars, ioVars, teamVars, pollVars>>

----------------------------------------------------------------------------
(* fetchInbox: not a queued mutation.  readInbox(agent, true) reads the    *)
(* inbox file and, when there is none, writes initialState; other requests *)
(* (mutations and other fetches) run between that read and that write.     *)

SinceInputs == {0, 1}

Max(x, y) == IF x >= y THEN x ELSE y

\* store.ts:661-664
inboxPage(state, since) ==
    LET cursorFloor == IF since > 0 THEN since ELSE 0
        events == SelectSeq(state.events, LAMBDA e : e.cursor > cursorFloor)
    IN  [events |-> events,
         nextSince |-> IF events /= << >> THEN events[Len(events)].cursor
                       ELSE Max(cursorFloor, state.nextCursor)]

FetchResponse(agentId, page) ==
    [Response("fetchInbox", 0, agentId, 200, "")
        EXCEPT !.events = page.events, !.nextSince = page.nextSince]

\* readJsonFile(inboxFilePath) finds the file, and the request answers
FetchInboxRead(agentId, since) ==
    /\ inbox[agentId].exists
    /\ resp' = FetchResponse(agentId, inboxPage(inbox[agentId], since))
    /\ UNCHANGED <<now, tasks, idem, audit, inbox, fetchPc, lastCursor, faults, lockFile,
                   procs, threadVars, guard, queueVars, httpVars, ioVars, teamVars, pollVars>>

\* readJsonFile(inboxFilePath) finds no file (ENOENT); the call goes on to
\* writeInbox
FetchInboxMissing(agentId) ==
    /\ ~inbox[agentId].exists
    /\ fetchPc[agentId] < MaxFetches
    /\ fetchPc' = [fetchPc EXCEPT ![agentId] = @ + 1]
    /\ UNCHANGED <<now, tasks, idem, audit, inbox, resp, lastCursor, faults, lockFile, procs,
                   threadVars, guard, queueVars, httpVars, ioVars, teamVars, pollVars>>

\* writeInbox(agentId, initialState), then the answer from initialState
FetchInboxCreate(agentId, since) ==
    /\ fetchPc[agentId] > 0
    /\ fetchPc' = [fetchPc EXCEPT ![agentId] = @ - 1]
    /\ \/ /\ inbox' = [inbox EXCEPT ![agentId] = initialState]
          /\ resp' = FetchResponse(agentId, inboxPage(initialState, since))
          /\ UNCHANGED faults
       \/ /\ faults > 0
          /\ faults' = faults - 1
          /\ resp' = Response("fetchInbox", 0, agentId, 500, "INTERNAL_ERROR")
          /\ UNCHANGED inbox
    /\ UNCHANGED <<now, tasks, idem, audit, lastCursor, lockFile, procs, threadVars, guard,
                   queueVars, httpVars, ioVars, teamVars, pollVars>>

----------------------------------------------------------------------------
(* Threads: threads/index.json and one append-only .jsonl file per thread. *)
(* A message id (msg-<uuid>) is the number of the append that wrote it.    *)

ThreadIds == 1..MaxThreads
ParticipantInputs == SUBSET Agents
StarterInputs == {"", "a"}
ThreadTaskInputs == {Null, Some(1)}
MessageInputs == {"", "m"}
LimitInputs == {0, 1}

defaultTailLimit == 20
maxTailLimit == 200

ThreadExists(th) == th \in DOMAIN threads

\* the appends made to a thread file so far, finished or not
appendCount(file) == Len(SelectSeq(file, LAMBDA piece : piece.kind /= "nl"))

StartThread(participants, agentId, taskId) ==
    LET uniqueParticipants ==
            participants \cup (IF agentId /= "" THEN {agentId} ELSE {})
        threadId == Len(threads) + 1
        thread == [participants |-> uniqueParticipants, taskId |-> taskId, updatedAt |-> now]
        actor == IF agentId /= "" THEN agentId ELSE "teamd"
        ok == [Response("startThread", 0, agentId, 201, "") EXCEPT !.thread = threadId]
    IN  /\ UNCHANGED <<now, fetchPc, lockFile, procs, guard, queueVars, httpVars, ioVars, teamVars, pollVars>>
        /\ IF taskId /= Null /\ ~Exists(taskId[1])
           THEN Reject(Response("startThread", taskId[1], agentId, 404, "TASK_NOT_FOUND"))
           ELSE /\ Len(threads) < MaxThreads
                /\ Len(audit) < MaxAudit
                /\ Commit(<<WThreadIndex(Append(threads, thread)),
                            WAudit("thread_started", threadId, actor)>>, ok)

PostThreadMessage(th, agentId, message) ==
    /\ UNCHANGED <<now, fetchPc, lockFile, procs, guard, queueVars, httpVars, ioVars, teamVars, pollVars>>
    /\ IF message = ""
       THEN Reject([Response("post", 0, agentId, 400, "INVALID_THREAD_MESSAGE")
                      EXCEPT !.thread = th])
       ELSE IF ~ThreadExists(th)
       THEN Reject([Response("post", 0, agentId, 404, "THREAD_NOT_FOUND")
                      EXCEPT !.thread = th])
       ELSE LET id == appendCount(threadFile[th]) + 1
                recipients == threads[th].participants \ {agentId}
            IN  /\ appendCount(threadFile[th]) < MaxMessages
                /\ Len(audit) < MaxAudit
                /\ \E order \in Orders(recipients) :
                      Commit(<<WThreadAppend(th, id),
                               WThreadIndex([threads EXCEPT ![th].updatedAt = now]),
                               WAudit("thread_message", th, agentId)>>
                               \o inboxPlan(order, "thread_message", 0, agentId),
                             afterInbox(order, [Response("post", 0, agentId, 201, "")
                                                  EXCEPT !.thread = th, !.messages = <<id>>]))

\* The daemon dies inside postThreadMessage's appendJsonl: some of the
\* record's bytes are in the file, the newline is not.  On restart the new
\* process finds the files as they are; requests in flight are gone.
CrashedAppend(th, agentId, whole) ==
    /\ ThreadExists(th)
    /\ appendCount(threadFile[th]) < MaxMessages
    /\ LET id == appendCount(threadFile[th]) + 1
           piece == IF whole THEN JsonText(id) ELSE JsonPrefix(id)
       IN  threadFile' = [threadFile EXCEPT ![th] = Append(@, piece)]
    /\ fetchPc' = [a \in Agents |-> 0]
    /\ resp' = [Response("post", 0, agentId, 0, "") EXCEPT !.thread = th]
    /\ UNCHANGED <<now, tasks, idem, audit, inbox, lastCursor, faults, lockFile, procs,
                   threads, posted, guard, queueVars, httpVars, ioVars, teamVars, pollVars>>

\* raw.split("\n"): the pieces between the newlines, the last line being
\* what follows the last newline
RECURSIVE splitLines(_, _)
splitLines(file, line) ==
    IF file = << >> THEN <<line>>
    ELSE IF Head(file).kind = "nl"
    THEN <<line>> \o splitLines(Tail(file), << >>)
    ELSE splitLines(Tail(file), Append(line, Head(file)))

\* JSON.parse(line) succeeds: the line is the whole text of one record
parses(line) == Len(line) = 1 /\ line[1].kind = "json"

\* readJsonlSafe: ok = FALSE stands for IoError INVALID_JSONL_LINE
readJsonlSafe(file) ==
    LET hasTrailingNewline == file /= << >> /\ file[Len(file)].kind = "nl"
        split == splitLines(file, << >>)
        lines == IF hasTrailingNewline THEN split ELSE SubSeq(split, 1, Len(split) - 1)
        filled == SelectSeq(lines, LAMBDA line : line /= << >>)
    IN  IF \A i \in DOMAIN filled : parses(filled[i])
        THEN [ok |-> TRUE, records |-> [i \in DOMAIN filled |-> filled[i][1].id]]
        ELSE [ok |-> FALSE, records |-> << >>]

normalizedLimit(limit) ==
    IF limit > 0 THEN (IF limit < maxTailLimit THEN limit ELSE maxTailLimit)
    ELSE defaultTailLimit

\* records.slice(-n)
lastRecords(records, n) ==
    IF Len(records) <= n THEN records
    ELSE SubSeq(records, Len(records) - n + 1, Len(records))

\* readThreadTail: a read, not queued
ReadThreadTail(th, limit) ==
    /\ resp' = IF ~ThreadExists(th)
               THEN [Response("tail", 0, "", 404, "THREAD_NOT_FOUND") EXCEPT !.thread = th]
               ELSE LET read == readJsonlSafe(threadFile[th])
                    IN  IF ~read.ok
                        THEN [Response("tail", 0, "", 500, "INTERNAL_ERROR")
                                EXCEPT !.thread = th]
                        ELSE [Response("tail", 0, "", 200, "")
                                EXCEPT !.thread = th,
                                       !.messages = lastRecords(read.records,
                                                                normalizedLimit(limit))]
    /\ UNCHANGED <<now, tasks, idem, audit, inbox, fetchPc, lastCursor, faults, lockFile,
                   procs, threadVars, guard, queueVars, httpVars, ioVars, teamVars, pollVars>>

----------------------------------------------------------------------------
(* canWrite *)

PathInputs ==
    { <<"src">>, <<"src", "io", "x">>, <<".", "src", "">>, <<"docs">>,
      <<"..", "src">>, <<"">>, <<".", "">> }

\* safeJoin's assertNoTraversal on an already normalized relative path
hasTraversal(path) == \E i \in DOMAIN path : path[i] = ".."

\* the scan of store.ts:687-710
\* the scan without the test of the lease's expiry
leaseCoversExpired(agentId, safePath) ==
    \E t \in DOMAIN tasks :
        /\ tasks[t].status = "in_progress"
        /\ tasks[t].lease /= Null
        /\ tasks[t].lease[1].holder = agentId
        /\ \E r \in tasks[t].resources : resourceMatchesPath(r, safePath)

leaseCovers(agentId, safePath) ==
    \E t \in DOMAIN tasks :
        /\ tasks[t].status = "in_progress"
        /\ tasks[t].lease /= Null
        /\ tasks[t].lease[1].holder = agentId
        /\ ~(tasks[t].lease[1].expiresAt <= now)
        /\ \E r \in tasks[t].resources : resourceMatchesPath(r, safePath)

canWrite(agentId, requestedPath) ==
    LET safePath == normalizePathPrefix(requestedPath)
    IN  IF safePath = << >> THEN [allow |-> FALSE, reason |-> "invalid_path"]
        ELSE IF hasTraversal(safePath)
        THEN [allow |-> FALSE, reason |-> "path_traversal_denied"]
        ELSE IF leaseCovers(agentId, safePath)
        THEN [allow |-> TRUE, reason |-> "lease_active_for_resource"]
        ELSE [allow |-> FALSE, reason |-> "no_active_lease_for_path"]

\* GET /v1/can-write: a read, answered 200 with canWrite's result
CanWriteRequest(agentId, requestedPath) ==
    /\ resp' = [Response("canWrite", 0, agentId, 200, canWrite(agentId, requestedPath).reason)
                  EXCEPT !.allow = canWrite(agentId, requestedPath).allow,
                         !.path = requestedPath]
    /\ UNCHANGED <<now, tasks, idem, audit, inbox, fetchPc, lastCursor, faults, lockFile,
                   procs, threadVars, guard, queueVars, httpVars, ioVars, teamVars, pollVars>>

----------------------------------------------------------------------------
(* The single-instance lock: acquireLock and startTeamd.  A daemon process *)
(* is named by its pid; every await of the code is a step of its own.      *)

Procs == 1..MaxProcs

Proc(pc, attempt, holder) == [pc |-> pc, attempt |-> attempt, holder |-> holder]

\* process.kill(pid, 0) answers ESRCH
isDead(pid) == pid \in Procs /\ procs[pid].pc = "dead"

\* isStalePid
isStalePid(pid) == pid /= Null /\ pid[1] > 0 /\ isDead(pid[1])

\* readFile(lockPath).trim() || "unknown", then tryParseLockInfo(...).pid:
\* Null when there is no file, or no content yet
readLockPid == IF lockFile = Null \/ lockFile[1].pid = 0 THEN Null ELSE Some(lockFile[1].pid)

StartTeamd(p) ==
    /\ procs[p].pc = "idle"
    /\ procs' = [procs EXCEPT ![p] = Proc("open", 0, Null)]
    /\ UNCHANGED <<lockFile, now, tasks, idem, audit, inbox, fetchPc, resp, lastCursor, faults,
                   threadVars, guard, queueVars, httpVars, ioVars, teamVars, pollVars>>

\* fs.open(lockPath, "wx"): creates the file, empty, or fails with EEXIST
OpenLock(p) ==
    /\ procs[p].pc = "open"
    /\ IF lockFile = Null
       THEN /\ lockFile' = Some([owner |-> p, pid |-> 0])
            /\ procs' = [procs EXCEPT ![p].pc = "write"]
       ELSE /\ procs' = [procs EXCEPT ![p].pc = "read"]
            /\ UNCHANGED lockFile
    /\ UNCHANGED <<now, tasks, idem, audit, inbox, fetchPc, resp, lastCursor, faults,
                   threadVars, guard, queueVars, httpVars, ioVars, teamVars, pollVars>>

\* lockHandle.writeFile and sync: the pid goes to the file the handle opened,
\* which is the lock file only while nobody has removed it
WriteLock(p) ==
    /\ procs[p].pc = "write"
    /\ lockFile' = IF lockFile /= Null /\ lockFile[1].owner = p
                   THEN Some([owner |-> p, pid |-> p])
                   ELSE lockFile
    /\ procs' = [procs EXCEPT ![p].pc = "store"]
    /\ UNCHANGED <<now, tasks, idem, audit, inbox, fetchPc, resp, lastCursor, faults,
                   threadVars, guard, queueVars, httpVars, ioVars, teamVars, pollVars>>

\* the EEXIST branch: read the holder, and either go on to remove a stale
\* lock (first attempt only) or fail naming the holder
ReadLock(p) ==
    /\ procs[p].pc = "read"
    /\ procs' = [procs EXCEPT ![p] =
                    IF procs[p].attempt = 0 /\ isStalePid(readLockPid)
                    THEN Proc("rm", 0, Null)
                    ELSE Proc("failed", procs[p].attempt, readLockPid)]
    /\ UNCHANGED <<lockFile, now, tasks, idem, audit, inbox, fetchPc, resp, lastCursor, faults,
                   threadVars, guard, queueVars, httpVars, ioVars, teamVars, pollVars>>

\* fs.rm(lockPath, {force: true}); continue
RemoveStaleLock(p) ==
    /\ procs[p].pc = "rm"
    /\ lockFile' = Null
    /\ procs' = [procs EXCEPT ![p] = Proc("open", 1, Null)]
    /\ UNCHANGED <<now, tasks, idem, audit, inbox, fetchPc, resp, lastCursor, faults,
                   threadVars, guard, queueVars, httpVars, ioVars, teamVars, pollVars>>

\* TeamdStore.create, outside the try block: a failure leaves the lock
CreateStore(p) ==
    /\ procs[p].pc = "store"
    /\ \/ procs' = [procs EXCEPT ![p].pc = "serve"]
       \/ procs' = [procs EXCEPT ![p].pc = "failed"]
    /\ UNCHANGED <<lockFile, now, tasks, idem, audit, inbox, fetchPc, resp, lastCursor, faults,
                   threadVars, guard, queueVars, httpVars, ioVars, teamVars, pollVars>>

\* startTeamdHttpServer and the runtime file, inside the try block: a
\* failure releases the lock (fs.rm of the lock path, whoever owns the file)
Serve(p) ==
    /\ procs[p].pc = "serve"
    /\ \/ /\ procs' = [procs EXCEPT ![p].pc = "running"]
          /\ UNCHANGED lockFile
       \/ /\ procs' = [procs EXCEPT ![p].pc = "failed"]
          /\ lockFile' = Null
    /\ UNCHANGED <<now, tasks, idem, audit, inbox, fetchPc, resp, lastCursor, faults,
                   threadVars, guard, queueVars, httpVars, ioVars, teamVars, pollVars>>

\* close(): server.close(), then lock.release()
Close(p) ==
    /\ procs[p].pc = "running"
    /\ procs' = [procs EXCEPT ![p].pc = "closed"]
    /\ lockFile' = Null
    /\ UNCHANGED <<now, tasks, idem, audit, inbox, fetchPc, resp, lastCursor, faults,
                   threadVars, guard, queueVars, httpVars, ioVars, teamVars, pollVars>>

\* the process dies (kill -9, power loss) with whatever it has written
Crash(p) ==
    /\ procs[p].pc \in {"write", "store", "serve", "running"}
    /\ procs' = [procs EXCEPT ![p].pc = "dead"]
    /\ UNCHANGED <<lockFile, now, tasks, idem, audit, inbox, fetchPc, resp, lastCursor, faults,
                   threadVars, guard, queueVars, httpVars, ioVars, teamVars, pollVars>>

----------------------------------------------------------------------------
(* The guard of the extension: the tool_call handler of                    *)
(* src/src/extension/team-coordination.ts and the client's canWrite of     *)
(* src/src/extension/teamd-client.ts.  A string is "" when it is not set;  *)
(* the empty path is <<"">>.                                               *)

GUARDED_TOOL_NAMES == {"write", "edit", "bash"}
ToolInputs == GUARDED_TOOL_NAMES \cup {"read"}

\* the context argument of the handler: none, or one with its hasUI flag
ContextInputs == {Null, Some([hasUI |-> FALSE]), Some([hasUI |-> TRUE])}

EmptyPath == <<"">>
Dot == <<".">>

\* event.input
EventInputs ==
    { [filePath |-> EmptyPath, path |-> EmptyPath],
      [filePath |-> <<"src", "io", "x">>, path |-> <<"docs">>] }

\* process.env and the file PI_TEAMD_TOKEN_FILE names: not set, not
\* readable, empty, one line with a token, or JSON with token and url
TokenFileInputs == {"unset", "unreadable", "empty", "token", "json"}

Env(url, token, teamId, agentId, tokenFile) ==
    [url |-> url, token |-> token, teamId |-> teamId, agentId |-> agentId,
     tokenFile |-> tokenFile]

EnvInputs ==
    { Env("u", "t", "team", "a", "unset"),
      Env("u", "t", "team", "", "unset"),
      Env("", "", "", "", "unset"),
      Env("", "", "team", "a", "json") }
    \cup {Env("u", "", "team", "a", f) : f \in TokenFileInputs \ {"unset"}}

\* what fetch gives for the can-write probe: a rejected promise, a status
\* that is not 2xx, a 2xx body that is not JSON, the JSON null, a JSON
\* object without allow, or the answer of the daemon's canWrite
FetchInputs ==
    {"network_error", "status_401", "bad_body", "null_body", "no_allow", "answer"}

\* parseTokenFile
parseTokenFile(tokenFile) ==
    CASE tokenFile = "token" -> [token |-> "t", url |-> ""]
      [] tokenFile = "json" -> [token |-> "t", url |-> "u"]
      [] OTHER -> [token |-> "", url |-> ""]

\* discover(requireAgent = true): Null, or the identity to call with
discover(env) ==
    LET useFile == (env.token = "" \/ env.url = "") /\ env.tokenFile /= "unset"
        fromFile == parseTokenFile(env.tokenFile)
        token == IF useFile /\ env.token = "" THEN fromFile.token ELSE env.token
        url == IF useFile /\ env.url = "" THEN fromFile.url ELSE env.url
    IN  IF useFile /\ env.tokenFile = "unreadable" THEN Null
        ELSE IF url = "" \/ token = "" \/ env.teamId = "" THEN Null
        ELSE IF env.agentId = "" THEN Null
        ELSE Some([baseUrl |-> url, token |-> token, teamId |-> env.teamId,
                   agentId |-> env.agentId])

Permission(allow, reason) == [allow |-> allow, reason |-> reason]

\* a variant that lets the write through when the daemon cannot be reached
clientCanWriteFailOpen(env, path, fetched) ==
    IF discover(env) = Null THEN Permission(FALSE, "missing_teamd_discovery")
    ELSE IF fetched = "network_error" THEN Permission(TRUE, "lease_active_for_resource")
    ELSE IF fetched \in {"status_401", "bad_body", "null_body"}
    THEN Permission(FALSE, "can_write_check_failed")
    ELSE IF fetched = "no_allow" THEN Permission(FALSE, "lease_required")
    ELSE canWrite(discover(env)[1].agentId, path)

\* the client's canWrite(path)
clientCanWrite(env, path, fetched) ==
    IF discover(env) = Null THEN Permission(FALSE, "missing_teamd_discovery")
    ELSE IF fetched \in {"network_error", "status_401", "bad_body", "null_body"}
    THEN Permission(FALSE, "can_write_check_failed")
    ELSE IF fetched = "no_allow" THEN Permission(FALSE, "lease_required")
    ELSE LET result == canWrite(discover(env)[1].agentId, path)
         IN  Permission(result.allow = TRUE, result.reason)

\* asString(x) || asString(y) || "."
extractTargetPath(toolName, input) ==
    IF toolName \in {"write", "edit"}
    THEN IF input.filePath /= EmptyPath THEN input.filePath
         ELSE IF input.path /= EmptyPath THEN input.path ELSE Dot
    ELSE IF toolName = "bash"
    THEN IF input.path /= EmptyPath THEN input.path ELSE Dot
    ELSE Dot

\* What the handler did with a tool call: probe = what the client's
\* canWrite was called with and what fetch gave it (Null: not called),
\* permission = what it returned, block = the handler returned
\* {block: true, reason}
Decision(toolName, ctx, probe, permission, block, reason) ==
    [tool |-> toolName, ctx |-> ctx, probe |-> probe, permission |-> permission,
     block |-> block, reason |-> reason]

Probe(env, path, fetched) == [env |-> env, path |-> path, fetched |-> fetched]

NoDecision == Decision("none", Null, Null, Null, FALSE, "")

conservativeReason == "Write blocked: conservative mode requires UI and active lease."
leaseReason == "Write blocked: active lease required"

\* pi.on("tool_call", ...)
ToolCall(toolName, ctx, input, env, fetched) ==
    /\ guard' =
          IF ctx = Null \/ toolName \notin GUARDED_TOOL_NAMES
          THEN Decision(toolName, ctx, Null, Null, FALSE, "")
          ELSE IF ~ctx[1].hasUI
          THEN Decision(toolName, ctx, Null, Null, TRUE, conservativeReason)
          ELSE LET path == extractTargetPath(toolName, input)
                   permission == clientCanWrite(env, path, fetched)
                   probe == Some(Probe(env, path, fetched))
               IN  IF permission.allow
                   THEN Decision(toolName, ctx, probe, Some(permission), FALSE, "")
                   ELSE Decision(toolName, ctx, probe, Some(permission), TRUE, leaseReason)
    /\ UNCHANGED <<now, tasks, idem, audit, inbox, fetchPc, resp, lastCursor, faults, lockFile,
                   procs, threadVars, queueVars, httpVars, ioVars, teamVars, pollVars>>

----------------------------------------------------------------------------
(* enqueueMutation: the promise chain itself.  An operation accepted by    *)
(* the queue waits in mutationTail; once it runs it reads the files, and   *)
(* each of its awaited writes is a step of its own.                        *)

MaxQueue == 2
MaxMutations == 5

\* the agent whose requests go through the queue, and the epoch it states
QueueAgents == {"a"}
QueueEpochs == {1}

\* the operations a client may hand to the queue
QueueRequests ==
    {[op |-> "create", task |-> 0, agent |-> "", epoch |-> 0, deps |-> deps] :
        deps \in DepInputs}
    \cup {[op |-> "claim", task |-> t, agent |-> a, epoch |-> 0, deps |-> {}] :
            t \in TaskIds, a \in QueueAgents}
    \cup {[op |-> "complete", task |-> t, agent |-> a, epoch |-> e, deps |-> {}] :
            t \in TaskIds, a \in QueueAgents, e \in QueueEpochs}

\* What the body of a queued operation does once it starts: the writes it
\* will issue, from the files as it reads them, and its answer
operation(req) ==
    CASE req.op = "create" ->
            LET taskId == Len(tasks) + 1
            IN  {[plan |-> <<WTask(taskId, newTask("t", req.deps, << >>)),
                             WAudit("task_created", taskId, "teamd")>>,
                  ok |-> [Response("create", taskId, "", 201, "") EXCEPT !.created = TRUE]]}
      [] req.op = "claim" ->
            IF ~Exists(req.task)
            THEN {[plan |-> << >>,
                   ok |-> Response("claim", req.task, req.agent, 404, "TASK_NOT_FOUND")]}
            ELSE LET task == resetIfExpired(tasks[req.task])
                     next == claimed(task, req.agent, Null)
                 IN  IF task.status /= "pending"
                     THEN {[plan |-> << >>,
                            ok |-> Response("claim", req.task, req.agent, 409,
                                            "TASK_NOT_CLAIMABLE")]}
                     ELSE {[plan |-> <<WTask(req.task, next),
                                       WAudit("task_claimed", req.task, req.agent)>>
                                     \o inboxPlan(order, "task_claimed", req.task, req.agent),
                            ok |-> afterInbox(order,
                                              [Response("claim", req.task, req.agent, 200, "")
                                                 EXCEPT !.epoch = next.epoch])] :
                           order \in Orders(broadcastRecipients)}
      [] OTHER ->
            IF ~Exists(req.task)
            THEN {[plan |-> << >>,
                   ok |-> Response("complete", req.task, req.agent, 404, "TASK_NOT_FOUND")]}
            ELSE LET check == leaseCheck(tasks[req.task], req.agent, req.epoch)
                     next == finalized(tasks[req.task], "completed")
                 IN  IF check[1] /= 200
                     THEN {[plan |-> << >>,
                            ok |-> Response("complete", req.task, req.agent,
                                            check[1], check[2])]}
                     ELSE {[plan |-> <<WTask(req.task, next),
                                       WAudit("task_completed", req.task, req.agent)>>
                                     \o inboxPlan(order, "task_completed", req.task, req.agent)
                                     \o (IF appendInboxEventThrows(order) THEN << >>
                                         ELSE unlockPlan(unlockOrder, req.agent)),
                            ok |-> afterInbox(order,
                                              [Response("complete", req.task, req.agent, 200, "")
                                                 EXCEPT !.epoch = next.epoch])] :
                           order \in Orders(broadcastRecipients),
                           unlockOrder \in Orders(dependentsToUnlock(req.task))}

\* the number the queue gives the next operation it accepts
nextMutation ==
    LET used == {mutationTail[i].id : i \in DOMAIN mutationTail}
                \cup {applied[i].id : i \in DOMAIN applied}
    IN  IF used = {} THEN 1 ELSE 1 + CHOOSE m \in used : \A n \in used : n <= m

\* enqueueMutation(operation): the operation is chained behind the tail
EnqueueMutation(req) ==
    /\ Len(mutationTail) < MaxQueue
    /\ nextMutation <= MaxMutations
    /\ req.op = "create" =>
          Len(tasks) + Cardinality({i \in DOMAIN mutationTail :
                                       mutationTail[i].req.op = "create"}) < MaxTasks
    /\ req.op = "claim" => \A t \in DOMAIN tasks : tasks[t].epoch < MaxEpoch
    /\ mutationTail' = Append(mutationTail,
                              [req |-> req, id |-> nextMutation, plan |-> Null, ok |-> Null])
    /\ UNCHANGED <<now, tasks, idem, audit, inbox, fetchPc, resp, lastCursor, faults, lockFile,
                   procs, threadVars, guard, applied, httpVars, ioVars, teamVars, pollVars>>

\* a variant in which every accepted operation may run at once
runnableAll(ops) == DOMAIN ops

\* a chain on which nothing ever runs
runnableNone(ops) == {}

\* this.mutationTail.then(operation, operation): an operation runs when
\* the one chained before it has settled, that is, only the head runs
runnable(ops) == IF ops = << >> THEN {} ELSE {1}

\* the chain without its i-th operation
settled(ops, i) == SubSeq(ops, 1, i - 1) \o SubSeq(ops, i + 1, Len(ops))

\* One step of a running operation: it starts (reads the files and decides
\* its writes), or it makes its next write; after the last one it settles
\* and its promise resolves with the answer
RunMutation(i) ==
    LET m == mutationTail[i]
    IN  /\ i \in runnable(mutationTail)
        /\ UNCHANGED <<now, fetchPc, faults, lockFile, procs, posted, guard, httpVars, ioVars, teamVars, pollVars>>
        /\ IF m.plan = Null
           THEN /\ \E body \in operation(m.req) :
                      IF body.plan = << >>
                      THEN /\ mutationTail' = settled(mutationTail, i)
                           /\ resp' = body.ok
                      ELSE /\ mutationTail' = [mutationTail EXCEPT
                                                  ![i].plan = Some(body.plan),
                                                  ![i].ok = Some(body.ok)]
                           /\ UNCHANGED resp
                /\ UNCHANGED <<tasks, idem, audit, inbox, lastCursor, threads, threadFile,
                               applied>>
           ELSE LET w == Head(m.plan[1])
                    d == ApplyWrite(disk, w)
                IN  /\ tasks' = d.tasks
                    /\ idem' = d.idem
                    /\ audit' = d.audit
                    /\ inbox' = d.inbox
                    /\ threads' = d.threads
                    /\ threadFile' = d.threadFile
                    /\ lastCursor' = cursorsAfter(d)
                    /\ applied' = Append(applied, [id |-> m.id, kind |-> w.kind])
                    /\ IF Tail(m.plan[1]) = << >>
                       THEN /\ mutationTail' = settled(mutationTail, i)
                            /\ resp' = m.ok[1]
                       ELSE /\ mutationTail' = [mutationTail EXCEPT
                                                   ![i].plan = Some(Tail(m.plan[1]))]
                            /\ UNCHANGED resp

\* A read or a write of a running operation fails: the operation throws,
\* its promise rejects with the error, and the tail settles all the same
\* (run.then(() => undefined, () => undefined))
FailMutation(i) ==
    LET m == mutationTail[i]
    IN  /\ i \in runnable(mutationTail)
        /\ faults > 0
        /\ faults' = faults - 1
        /\ mutationTail' = settled(mutationTail, i)
        /\ resp' = Response(m.req.op, m.req.task, m.req.agent, 500, "INTERNAL_ERROR")
        /\ UNCHANGED <<now, tasks, idem, audit, inbox, fetchPc, lastCursor, lockFile, procs,
                       threadVars, guard, applied, httpVars, ioVars, teamVars, pollVars>>

----------------------------------------------------------------------------
(* The HTTP front of the daemon (startTeamdHttpServer): /healthz, the      *)
(* bearer check of everything under /v1/, and the routes to the store.     *)
(* A URL path is the sequence of its segments without the leading "/"; an  *)
(* Authorization header is the sequence header.split(" ") gives.           *)

\* options.token
serverToken == "t"

Methods == {"GET", "POST"}

UrlInputs ==
    {<<"healthz">>, <<"v1">>, <<"v1", "">>, <<"v1", "nope">>, <<"v1", "tasks">>,
     <<"v1", "tasks", "1">>, <<"v1", "tasks", "1", "claim">>,
     <<"v1", "tasks", "2", "claim">>}

\* request.headers.authorization: absent, or its words
HeaderInputs ==
    {Null, Some(<<"Bearer">>), Some(<<"Bearer", "t">>), Some(<<"Bearer", "x">>),
     Some(<<"Basic", "t">>), Some(<<"bearer", "t">>), Some(<<"t">>),
     Some(<<"Bearer", "", "t">>)}

\* the task a path segment names (task-NNNN)
taskOf(segment) ==
    CASE segment = "1" -> 1
      [] segment = "2" -> 2
      [] OTHER -> 0

\* a variant that takes the second word of the header whatever the first is
parseBearerTokenAnyKind(header) ==
    IF header = Null THEN Null
    ELSE IF Len(header[1]) < 2 \/ header[1][2] = "" THEN Null
    ELSE Some(header[1][2])

\* parseBearerToken (null when the header is missing, its first word is
\* not Bearer, or its second word is missing or empty)
parseBearerToken(header) ==
    IF header = Null THEN Null
    ELSE IF header[1][1] /= "Bearer" \/ Len(header[1]) < 2 \/ header[1][2] = "" THEN Null
    ELSE Some(header[1][2])

\* pathName.startsWith("/v1/")
startsWithV1(url) == Len(url) >= 2 /\ url[1] = "v1"

\* the requests clients send
HttpRequests ==
    [method : Methods, url : UrlInputs, header : HeaderInputs, agentId : Agents]

\* a request arrives; the server has not answered it yet
Receive(r) ==
    /\ resp /= NoResponse \/ request = Null
    /\ request' = Some(r)
    /\ resp' = NoResponse
    /\ UNCHANGED <<now, tasks, idem, audit, inbox, fetchPc, lastCursor, faults, lockFile,
                   procs, threadVars, guard, queueVars, ioVars, teamVars, pollVars>>

\* the handler of createServer, for the request that arrived
HttpRequest(method, url, header, agentId) ==
    /\ request = Some([method |-> method, url |-> url, header |-> header,
                       agentId |-> agentId])
    /\ resp = NoResponse
    /\ IF method = "GET" /\ url = <<"healthz">>
       THEN /\ Reject(Response("healthz", 0, "", 200, ""))
            /\ UNCHANGED <<now, fetchPc, lockFile, procs, guard, queueVars, httpVars, ioVars, teamVars, pollVars>>
       ELSE IF startsWithV1(url) /\ parseBearerToken(header) /= Some(serverToken)
       THEN /\ Reject(Response("http", 0, "", 401, "UNAUTHORIZED"))
            /\ UNCHANGED <<now, fetchPc, lockFile, procs, guard, queueVars, httpVars, ioVars, teamVars, pollVars>>
       ELSE IF method = "POST" /\ url = <<"v1", "tasks">>
       THEN CreateTask("t", {}, << >>, NoKey)
       ELSE IF method = "GET" /\ Len(url) >= 3 /\ SubSeq(url, 1, 2) = <<"v1", "tasks">>
       THEN /\ LET taskId == IF Len(url) = 3 THEN taskOf(url[3]) ELSE 0
               IN  Reject(IF Exists(taskId)
                          THEN Response("getTask", taskId, "", 200, "")
                          ELSE Response("getTask", taskId, "", 404, "TASK_NOT_FOUND"))
            /\ UNCHANGED <<now, fetchPc, lockFile, procs, guard, queueVars, httpVars, ioVars, teamVars, pollVars>>
       ELSE IF method = "POST" /\ Len(url) = 4 /\ SubSeq(url, 1, 2) = <<"v1", "tasks">>
               /\ url[4] = "claim"
       THEN ClaimTask(taskOf(url[3]), agentId, Null)
       ELSE /\ Reject(Response("http", 0, "", 404, "NOT_FOUND"))
            /\ UNCHANGED <<now, fetchPc, lockFile, procs, guard, queueVars, httpVars, ioVars, teamVars, pollVars>>

----------------------------------------------------------------------------
(* Agent identifiers.  An identifier is a string; agentIdChars spells the  *)
(* identifiers a request may carry.                                        *)

\* body.agentId of a claim: a well-formed identifier, the empty string
\* (bodyString of a missing field) and a path
AgentIdInputs == {"a", "", "../x"}

----------------------------------------------------------------------------
(* Requests that carry an Idempotency-Key header.  The client keeps the    *)
(* answer it got for a key and repeats the request under the same key.     *)

\* POST /v1/tasks, POST /v1/threads and POST /v1/threads/:id/messages, each
\* with its key; first is the answer the client got when it sent this same
\* request before, if it did
KeyedRequests ==
    [route : {"tasks", "threads", "messages"}, key : Keys, agentId : {"a"},
     thread : ThreadIds, first : {Null}]

\* a keyed request arrives: a new one, or the repetition of the request
\* that was just answered with success
ReceiveKeyed(r, repeated) ==
    /\ resp /= NoResponse \/ request = Null
    /\ IF repeated
       THEN /\ request /= Null
            /\ resp.status = 201 \/ resp.status = 200
            /\ [request[1] EXCEPT !.first = Null] = r
            /\ request' = Some([r EXCEPT !.first = IF request[1].first /= Null
                                                   THEN request[1].first
                                                   ELSE Some(resp)])
       ELSE request' = Some(r)
    /\ resp' = NoResponse
    /\ UNCHANGED <<now, tasks, idem, audit, inbox, fetchPc, lastCursor, faults, lockFile,
                   procs, threadVars, guard, queueVars, ioVars, teamVars, pollVars>>

\* the three routes: only POST /v1/tasks reads the idempotency-key header
\* and hands it to the store
KeyedRoute ==
    /\ request /= Null
    /\ resp = NoResponse
    /\ LET r == request[1]
       IN  CASE r.route = "tasks" -> CreateTask("t", {}, << >>, r.key)
             [] r.route = "threads" -> StartThread({}, r.agentId, Null)
             [] OTHER -> PostThreadMessage(r.thread, r.agentId, "m")

----------------------------------------------------------------------------
(* The I/O layer: safeJoin.  A relative path is the sequence of its        *)
(* segments; a path below the root is the sequence of its names.  The      *)
(* files below the root are a function from such paths to what lstat and   *)
(* realpath say about them.                                                *)

Dir == [kind |-> "dir", target |-> Null]
File == [kind |-> "file", target |-> Null]

\* a symbolic link whose real path is inside the root (at path), outside
\* it, or that has none because what it names does not exist
LinkInside(path) == [kind |-> "link", target |-> Some([outside |-> FALSE, path |-> path])]
LinkOutside == [kind |-> "link", target |-> Some([outside |-> TRUE, path |-> << >>])]
LinkDangling == [kind |-> "link", target |-> Null]

\* what is below the team root when safeJoin is called
FsInputs ==
    { << >>,
      [p \in {<<"evil">>} |-> LinkOutside],
      [p \in {<<"evil">>} |-> LinkDangling],
      [p \in {<<"a">>, <<"a", "evil">>} |-> IF p = <<"a">> THEN Dir ELSE LinkOutside],
      [p \in {<<"a">>, <<"b">>, <<"b", "evil">>} |->
          IF p = <<"a">> THEN LinkInside(<<"b">>)
          ELSE IF p = <<"b">> THEN Dir ELSE LinkOutside],
      [p \in {<<"a">>} |-> File] }

\* the relative paths handed to safeJoin: "x", "a/x", "evil", "evil/x",
\* "a/evil", "./a/evil/x", "", "../x", "..", "a/../x", "a/../../x", "/x"
RelativeInputs ==
    { <<"x">>, <<"a", "x">>, <<"evil">>, <<"evil", "x">>, <<"a", "evil">>,
      <<".", "a", "evil", "x">>, <<"">>, <<"..", "x">>, <<"..">>, <<"a", "..", "x">>,
      <<"a", "..", "..", "x">>, <<"", "x">> }

\* path.isAbsolute
isAbsolute(relative) == Len(relative) >= 2 /\ relative[1] = ""

\* path.normalize of a relative path: "." and empty segments go, a ".."
\* takes the segment before it away and stays when there is none
RECURSIVE normalizeOnto(_, _)
normalizeOnto(acc, segments) ==
    IF segments = << >> THEN acc
    ELSE LET h == Head(segments)
         IN  IF h = "" \/ h = "." THEN normalizeOnto(acc, Tail(segments))
             ELSE IF h = ".." /\ acc /= << >> /\ acc[Len(acc)] /= ".."
             THEN normalizeOnto(SubSeq(acc, 1, Len(acc) - 1), Tail(segments))
             ELSE normalizeOnto(Append(acc, h), Tail(segments))

normalize(relative) == normalizeOnto(<< >>, relative)

\* assertNoTraversal passes: the path is not absolute and its
\* normalization has no ".." segment
assertNoTraversal(relative) ==
    ~isAbsolute(relative) /\ ~hasTraversal(normalize(relative))

\* the loop over the parts: lstat of each, realpath of a link; "" when
\* the loop ends or breaks on ENOENT
RECURSIVE walkParts(_, _, _)
walkParts(fs, current, parts) ==
    IF parts = << >> THEN ""
    ELSE LET next == Append(current, Head(parts))
         IN  IF current \in DOMAIN fs /\ fs[current].kind = "file" THEN "ENOTDIR"
             ELSE IF next \notin DOMAIN fs THEN ""
             ELSE IF fs[next].kind /= "link" THEN walkParts(fs, next, Tail(parts))
             ELSE IF fs[next].target = Null THEN ""
             ELSE IF fs[next].target[1].outside THEN "SYMLINK_ESCAPE"
             ELSE walkParts(fs, fs[next].target[1].path, Tail(parts))

\* safeJoin(teamRoot, relative): the path below realpath(teamRoot) it
\* returns, or the code of the error it throws
safeJoin(fs, relative) ==
    IF ~assertNoTraversal(relative)
    THEN [ok |-> FALSE, code |-> "PATH_TRAVERSAL", path |-> << >>]
    ELSE LET error == walkParts(fs, << >>, normalize(relative))
         IN  IF error /= ""
             THEN [ok |-> FALSE, code |-> error, path |-> << >>]
             ELSE [ok |-> TRUE, code |-> "", path |-> normalize(relative)]

SafeJoinCalls ==
    [call : {"safeJoin"}, fs : FsInputs, relative : RelativeInputs, result : {Null}]

\* the call returns or throws
SafeJoin ==
    /\ io.call = "safeJoin"
    /\ io.result = Null
    /\ io' = [io EXCEPT !.result = Some(safeJoin(io.fs, io.relative))]
    /\ UNCHANGED <<now, tasks, idem, audit, inbox, fetchPc, resp, lastCursor, faults, lockFile,
                   procs, threadVars, guard, queueVars, httpVars, teamVars, pollVars>>

----------------------------------------------------------------------------
(* The I/O layer: writeJsonAtomic, one await at a time.  A file is absent  *)
(* (Null) or holds a sequence of pieces; the record to write is named by   *)
(* a number.  One operation of the call may fail; the process may be       *)
(* killed between any two operations and while it writes.                  *)

\* `${JSON.stringify(data)}\n`
payload(value) == <<JsonText(value), Newline>>

\* what a write of the payload that did not finish leaves in the file
partialPayloads(value) == {<< >>, <<JsonPrefix(value)>>, <<JsonText(value)>>}

\* the records writeJsonAtomic is given, and what the destination holds
\* when it is called
ValueInputs == {2, 3}
PriorInputs == {Null, Some(payload(1)), Some(payload(2))}

WriteJsonAtomicCalls ==
    [call : {"writeJsonAtomic"}, value : ValueInputs, prior : PriorInputs,
     dest : PriorInputs, temp : {Null}, pc : {"mkdir"}, error : {""}]

\* a variant that opens the destination itself and writes into it
writtenInPlace(files, content) == [files EXCEPT !.dest = Some(content)]

\* fs.open(tempPath, "w") and handle.writeFile: the bytes go to the
\* temporary file
written(files, content) == [files EXCEPT !.temp = Some(content)]

\* an operation of the call throws: before the try block the error leaves
\* the function, inside it the handle is closed and the catch block runs
thrown(files, step) ==
    [files EXCEPT !.error = step,
                  !.pc = IF step = "mkdir" THEN "failed"
                         ELSE IF step = "writeFile" \/ step = "sync" THEN "close"
                         ELSE "catch"]

\* the next operation of the call: it succeeds, or it throws
WriteJsonAtomicStep ==
    /\ io.call = "writeJsonAtomic"
    /\ UNCHANGED <<now, tasks, idem, audit, inbox, fetchPc, resp, lastCursor, faults, lockFile,
                   procs, threadVars, guard, queueVars, httpVars, teamVars, pollVars>>
    /\ CASE io.pc = "mkdir" ->
               io' \in {[io EXCEPT !.pc = "open"], thrown(io, "mkdir")}
         [] io.pc = "open" ->
               io' \in {[written(io, << >>) EXCEPT !.pc = "writeFile"], thrown(io, "open")}
         [] io.pc = "writeFile" ->
               io' \in {[written(io, payload(io.value)) EXCEPT !.pc = "sync"]}
                       \cup {thrown(written(io, part), "writeFile") :
                               part \in partialPayloads(io.value)}
         [] io.pc = "sync" ->
               io' \in {[io EXCEPT !.pc = "close"], thrown(io, "sync")}
         [] io.pc = "close" ->
               io' \in {[io EXCEPT !.pc = IF io.error = "" THEN "rename" ELSE "catch"],
                        [io EXCEPT !.pc = "catch",
                                   !.error = IF io.error = "" THEN "close" ELSE io.error]}
         [] io.pc = "rename" ->
               io' \in {[io EXCEPT !.dest = io.temp, !.temp = Null, !.pc = "fsyncDir"],
                        thrown(io, "rename")}
         [] io.pc = "fsyncDir" ->
               io' = [io EXCEPT !.pc = "done"]
         [] io.pc = "catch" ->
               io' = [io EXCEPT !.temp = Null, !.pc = "failed"]
         [] OTHER -> FALSE

\* the process is killed: the files stay as they are, and a write that was
\* under way has put some of its bytes into its file
WriteJsonAtomicCrash ==
    /\ io.call = "writeJsonAtomic"
    /\ io.pc \notin {"done", "failed", "crashed"}
    /\ UNCHANGED <<now, tasks, idem, audit, inbox, fetchPc, resp, lastCursor, faults, lockFile,
                   procs, threadVars, guard, queueVars, httpVars, teamVars, pollVars>>
    /\ IF io.pc = "writeFile"
       THEN \E part \in partialPayloads(io.value) :
               io' = [written(io, part) EXCEPT !.pc = "crashed", !.error = "writeFile"]
       ELSE io' = [io EXCEPT !.pc = "crashed", !.error = io.pc]

----------------------------------------------------------------------------
(* Teams.  initialize() writes the default team record (no agents) when    *)
(* the team directory has none, so team.json exists in every state the     *)
(* daemon serves requests in, and createTeam never writes.                 *)

\* readTeam: the team record
readTeam == Some(team)

\* body.agents of POST /v1/teams: the ids of the agents that have an id
\* and a role
TeamAgentInputs == {{}, {"a", "b"}}

\* createTeam: the record on disk, or the new record after it is written
createTeam(agents) ==
    IF readTeam /= Null
    THEN [team |-> readTeam[1], plan |-> << >>]
    ELSE [team |-> [agents |-> agents],
          plan |-> <<WAudit("team_created", 0, "teamd")>>]

\* POST /v1/teams: sendJson(response, 201, { team }) whatever createTeam did
PostTeams(agents) ==
    LET made == createTeam(agents)
    IN  /\ UNCHANGED <<now, fetchPc, lockFile, procs, guard, queueVars, httpVars, ioVars, teamVars, pollVars>>
        /\ Commit(made.plan, [Response("createTeam", 0, "", 201, "")
                                EXCEPT !.created = (made.plan /= << >>)])

----------------------------------------------------------------------------
(* The inbox poller of the extension.  pollInbox sends fetchInbox with the *)
(* cursor it holds; the daemon reads the inbox file, writes it when there  *)
(* was none, and answers; the poller forwards the events of the answer as  *)
(* steering messages and takes nextSince as its cursor.                    *)

MaxPolls == 2
MaxForwarded == 3

\* the agent the poller runs for (PI_AGENT_ID)
PollAgent == "b"

\* sinceCursor undefined (sent as no since, read by the daemon as 0), no
\* interval timer yet, nothing in flight, nothing forwarded
NoPoller ==
    [sinceCursor |-> 0, started |-> FALSE, inflight |-> << >>, forwarded |-> << >>,
     readAt |-> 0]

\* a fetchInbox request of the poller: the since it was sent with, whether
\* the daemon has answered it, the answer, and the highest cursor assigned
\* when the daemon read the inbox file
Poll(since, stage, page) ==
    [since |-> since, stage |-> stage, events |-> page.events,
     nextSince |-> page.nextSince, readAt |-> lastCursor[PollAgent]]

WithoutPoll(polls, i) ==
    SubSeq(polls, 1, i - 1) \o SubSeq(polls, i + 1, Len(polls))

\* pollInbox is called and the daemon's fetchInbox reads the inbox file.
\* session_start awaits the first call and then sets the interval timer,
\* whose calls (overlap) do not wait for the call before them.
PollRead(overlap) ==
    /\ \/ poller.inflight = << >>
       \/ overlap /\ poller.started /\ Len(poller.inflight) < MaxPolls
    /\ LET since == poller.sinceCursor
           poll == IF inbox[PollAgent].exists
                   THEN Poll(since, "answered", inboxPage(inbox[PollAgent], since))
                   ELSE Poll(since, "missing", inboxPage(initialState, since))
       IN  /\ poller' = [poller EXCEPT !.inflight = Append(@, poll)]
           /\ resp' = IF inbox[PollAgent].exists
                      THEN FetchResponse(PollAgent, inboxPage(inbox[PollAgent], since))
                      ELSE resp
    /\ UNCHANGED <<now, tasks, idem, audit, inbox, fetchPc, lastCursor, faults, lockFile,
                   procs, threadVars, guard, queueVars, httpVars, ioVars, teamVars>>

\* readInbox found no file: writeInbox(agentId, initialState), and the answer
\* is made of initialState
PollCreate(i) ==
    /\ i \in DOMAIN poller.inflight
    /\ poller.inflight[i].stage = "missing"
    /\ inbox' = [inbox EXCEPT ![PollAgent] = initialState]
    /\ poller' = [poller EXCEPT !.inflight[i].stage = "answered"]
    /\ resp' = FetchResponse(PollAgent, inboxPage(initialState, poller.inflight[i].since))
    /\ UNCHANGED <<now, tasks, idem, audit, fetchPc, lastCursor, faults, lockFile,
                   procs, threadVars, guard, queueVars, httpVars, ioVars, teamVars>>

\* pollInbox resumes with the answer: one pi.sendMessage per event, then
\* sinceCursor = inbox.nextSince
PollFinish(i) ==
    /\ i \in DOMAIN poller.inflight
    /\ poller.inflight[i].stage = "answered"
    /\ Len(poller.forwarded) + Len(poller.inflight[i].events) <= MaxForwarded
    /\ poller' = [sinceCursor |-> poller.inflight[i].nextSince,
                  started |-> TRUE,
                  inflight |-> WithoutPoll(poller.inflight, i),
                  forwarded |-> poller.forwarded \o poller.inflight[i].events,
                  readAt |-> poller.inflight[i].readAt]
    /\ UNCHANGED <<now, tasks, idem, audit, inbox, fetchPc, resp, lastCursor, faults, lockFile,
                   procs, threadVars, guard, queueVars, httpVars, ioVars, teamVars>>

----------------------------------------------------------------------------
(* Initial state: a fresh team directory, no daemon started *)

InitRecords ==
    /\ now = 0
    /\ tasks = << >>
    /\ idem = [k \in Keys |-> 0]
    /\ audit = << >>
    /\ inbox = [a \in Agents |-> NoInbox]
    /\ fetchPc = [a \in Agents |-> 0]
    /\ resp = NoResponse
    /\ lastCursor = [a \in Agents |-> 0]
    /\ threads = << >>
    /\ threadFile = [th \in ThreadIds |-> << >>]
    /\ posted = [th \in ThreadIds |-> << >>]
    /\ guard = NoDecision
    /\ mutationTail = << >>
    /\ applied = << >>
    /\ request = Null
    /\ poller = NoPoller

\* initialize found no team.json and wrote the default team
InitFiles == InitRecords /\ team = buildDefaultTeam

\* the team.json records a daemon may find: none (it writes the default one),
\* one that configures an agent, and one with an id that readTeam, which
\* checks nothing, lets through
TeamInputs == {buildDefaultTeam, [agents |-> {"b"}], [agents |-> {"b", "../x"}]}

\* every file operation succeeds
InitStore == InitFiles /\ faults = 0

InitLock ==
    /\ lockFile = Null
    /\ procs = [p \in Procs |-> Proc("idle", 0, Null)]

\* no call into the I/O layer is under way
NoIo == [call |-> "none"]

InitIo == io = NoIo

Init == InitStore /\ InitLock /\ InitIo

\* initialize keeps a team.json it finds
InitStoreTeams == InitRecords /\ team \in TeamInputs /\ faults = 0

InitTeams == InitStoreTeams /\ InitLock /\ InitIo

\* safeJoin is called with some path on some team directory
InitSafeJoin == InitStore /\ InitLock /\ io \in SafeJoinCalls

\* writeJsonAtomic is called on a destination that is absent or holds a
\* record
InitWriteJsonAtomic ==
    InitStore /\ InitLock /\ io \in {c \in WriteJsonAtomicCalls : c.dest = c.prior}

\* up to MaxFaults file operations fail (EIO, ENOSPC, EACCES)
InitFaulty == InitFiles /\ faults = MaxFaults /\ InitLock /\ InitIo

----------------------------------------------------------------------------
(* Requests, with their inputs *)

Create ==
    \E title \in Titles, deps \in DepInputs, resources \in ResourceInputs,
       key \in Keys \cup {NoKey} :
        CreateTask(title, deps, resources, key)

\* the first task of the team, with one resource, no dependency and no key
CreateFirst ==
    \E title \in Titles :
        tasks = << >> /\ CreateTask(title, {}, << <<"src", "">> >>, NoKey)

\* a task with or without a dependency, one resource and no key
CreateWithDeps ==
    \E deps \in DepInputs : CreateTask("t", deps, << <<"src", "">> >>, NoKey)

Claim == \E t \in TaskIds, a \in Agents, ttl \in TtlInputs : ClaimTask(t, a, ttl)

\* a claim that leaves the TTL to the daemon
ClaimDefault == \E t \in TaskIds, a \in Agents : ClaimTask(t, a, Null)

Renew ==
    \E t \in DOMAIN tasks, a \in Agents, e \in 0..MaxEpoch, ttl \in TtlInputs :
        RenewTask(t, a, e, ttl)

Complete == \E t \in DOMAIN tasks, a \in Agents, e \in 0..MaxEpoch : CompleteTask(t, a, e)

Fail == \E t \in DOMAIN tasks, a \in Agents, e \in 0..MaxEpoch : FailTask(t, a, e)

\* a completion sent by the lease's holder with the lease's epoch
CompleteOwn ==
    \E t \in DOMAIN tasks :
        /\ tasks[t].lease /= Null
        /\ CompleteTask(t, tasks[t].lease[1].holder, tasks[t].lease[1].epoch)

\* the first task of the team, with resources inside and outside the root
CreateLeased ==
    \E resources \in LeasedResourceInputs :
        tasks = << >> /\ CreateTask("t", {}, resources, NoKey)

CanWrite == \E a \in Agents, path \in PathInputs : CanWriteRequest(a, path)

Start ==
    \E participants \in ParticipantInputs, a \in StarterInputs, taskId \in ThreadTaskInputs :
        StartThread(participants, a, taskId)

Post ==
    \E th \in ThreadIds, a \in Agents, message \in MessageInputs :
        PostThreadMessage(th, a, message)

Crashed == \E th \in ThreadIds, a \in Agents, whole \in BOOLEAN : CrashedAppend(th, a, whole)

ReadTail == \E th \in ThreadIds, limit \in LimitInputs : ReadThreadTail(th, limit)

ToolCalled ==
    \E toolName \in ToolInputs, ctx \in ContextInputs, input \in EventInputs,
       env \in EnvInputs, fetched \in FetchInputs :
        ToolCall(toolName, ctx, input, env, fetched)

FetchRead == \E a \in Agents, since \in SinceInputs : FetchInboxRead(a, since)

FetchMissing == \E a \in Agents : FetchInboxMissing(a)

FetchCreate == \E a \in Agents, since \in SinceInputs : FetchInboxCreate(a, since)

\* the requests of one agent, which states the epoch of its first lease
ClaimBy == \E t \in TaskIds, a \in QueueAgents : ClaimTask(t, a, Null)

RenewBy ==
    \E t \in DOMAIN tasks, a \in QueueAgents, e \in QueueEpochs : RenewTask(t, a, e, Null)

CompleteBy ==
    \E t \in DOMAIN tasks, a \in QueueAgents, e \in QueueEpochs : CompleteTask(t, a, e)

FailBy == \E t \in DOMAIN tasks, a \in QueueAgents, e \in QueueEpochs : FailTask(t, a, e)

\* a claim with whatever the body gives as agentId
ClaimAny == \E t \in TaskIds, a \in AgentIdInputs : ClaimTask(t, a, Null)

ArriveKeyed == \E r \in KeyedRequests, repeated \in BOOLEAN : ReceiveKeyed(r, repeated)

Teams == \E agents \in TeamAgentInputs : PostTeams(agents)

\* a failure reported by the lease's holder with the lease's epoch
FailOwn ==
    \E t \in DOMAIN tasks :
        /\ tasks[t].lease /= Null
        /\ FailTask(t, tasks[t].lease[1].holder, tasks[t].lease[1].epoch)

\* a poll of a client that waits for each answer before it asks again
PollAwaited == PollRead(FALSE)

\* a poll the interval timer starts
PollTimer == PollRead(TRUE)

PollCreated == \E i \in 1..MaxPolls : PollCreate(i)

PollFinished == \E i \in 1..MaxPolls : PollFinish(i)

Enqueue == \E req \in QueueRequests : EnqueueMutation(req)

Run == \E i \in DOMAIN mutationTail : RunMutation(i)

RunFailed == \E i \in DOMAIN mutationTail : FailMutation(i)

\* the operations on the first task: its creation, claims and completions
EnqueueFirst ==
    \E req \in QueueRequests :
        /\ req.deps = {}
        /\ req.task <= 1
        /\ req.op = "create" =>
              (tasks = << >> /\ \A i \in DOMAIN mutationTail : mutationTail[i].req.op /= "create")
        /\ EnqueueMutation(req)

Arrive == \E r \in HttpRequests : Receive(r)

Http == \E r \in HttpRequests : HttpRequest(r.method, r.url, r.header, r.agentId)

----------------------------------------------------------------------------
(* Specifications *)

\* The lease protocol of one task, with every kind of request against it
Next == CreateFirst \/ Claim \/ Renew \/ Complete \/ Fail \/ Tick

Spec == Init /\ [][Next]_vars

\* The same requests, on a disk that fails
SpecFaults == InitFaulty /\ [][Next]_vars

\* Several tasks with dependencies, resources and idempotency keys
NextTasks == Create \/ ClaimDefault \/ CompleteOwn

SpecTasks == Init /\ [][NextTasks]_vars

\* Tasks that depend on each other, created, claimed and completed
NextDeps == CreateWithDeps \/ ClaimDefault \/ CompleteOwn

SpecDeps == Init /\ [][NextDeps]_vars

\* The same requests, on a disk that fails: what a failed mutation leaves
\* behind is also what a read sees while the mutation is between two writes
SpecTasksFaults == InitFaulty /\ [][NextTasks]_vars

\* canWrite asked while one task is created, claimed, completed and its
\* lease runs out
NextCanWrite == CreateLeased \/ ClaimDefault \/ CompleteOwn \/ Tick \/ CanWrite

SpecCanWrite == Init /\ [][NextCanWrite]_vars

\* A thread with posts, appends cut short by a crash of the daemon, and
\* reads of its tail
NextThreads == Start \/ Post \/ Crashed \/ ReadTail

SpecThreads == Init /\ [][NextThreads]_vars

\* Tool calls of an agent's extension while a task is created and claimed
NextGuard == CreateLeased \/ ClaimDefault \/ ToolCalled

SpecGuard == Init /\ [][NextGuard]_vars

\* Inbox fetches interleaved with the mutations that fan out inbox events
NextInbox == CreateFirst \/ ClaimDefault \/ CompleteOwn \/ FetchRead \/ FetchMissing \/ FetchCreate

SpecInbox == Init /\ [][NextInbox]_vars

\* Daemon processes starting, closing and crashing on one team directory
NextLock ==
    \E p \in Procs :
        \/ StartTeamd(p)
        \/ OpenLock(p)
        \/ WriteLock(p)
        \/ ReadLock(p)
        \/ RemoveStaleLock(p)
        \/ CreateStore(p)
        \/ Serve(p)
        \/ Close(p)
        \/ Crash(p)

SpecLock == Init /\ [][NextLock]_vars

\* clients hand operations to the queue while earlier ones are running
NextQueue == Enqueue \/ Run

SpecQueue == Init /\ [][NextQueue]_vars

\* requests of clients with and without the token
NextHttp == Arrive \/ Http

SpecHttp == Init /\ [][NextHttp]_vars

\* every task operation, on tasks with and without a dependency
NextTerminal == CreateWithDeps \/ ClaimBy \/ RenewBy \/ CompleteBy \/ FailBy \/ Tick

SpecTerminal == Init /\ [][NextTerminal]_vars

\* claims whose agentId is taken from the body as it is
NextAgentIds == CreateWithDeps \/ ClaimAny \/ CompleteOwn \/ Tick

SpecAgentIds == Init /\ [][NextAgentIds]_vars

\* clients that send keyed requests and repeat them
NextKeyed == ArriveKeyed \/ KeyedRoute

SpecKeyed == Init /\ [][NextKeyed]_vars

NextSafeJoin == SafeJoin

SpecSafeJoin == InitSafeJoin /\ [][NextSafeJoin]_vars

NextWriteJsonAtomic == WriteJsonAtomicStep \/ WriteJsonAtomicCrash

SpecWriteJsonAtomic == InitWriteJsonAtomic /\ [][NextWriteJsonAtomic]_vars

\* the creating endpoints, with and without a key
NextCreating == Create \/ Teams

SpecCreating == Init /\ [][NextCreating]_vars

\* Broadcasts of task events, on a team directory with or without
\* configured agents, between inbox fetches
NextBroadcast ==
    \/ CreateFirst
    \/ ClaimDefault
    \/ CompleteOwn
    \/ FailOwn
    \/ FetchMissing
    \/ FetchCreate

SpecBroadcast == InitTeams /\ [][NextBroadcast]_vars

\* Requests that are accepted and requests that are refused, on a team
\* directory with or without configured agents
NextRejected ==
    \/ CreateFirst
    \/ ClaimDefault
    \/ Renew
    \/ Complete
    \/ Fail
    \/ Tick

SpecRejected == InitTeams /\ [][NextRejected]_vars

\* Permission probes while a task is claimed, completed or failed and its
\* lease runs out
NextRevoked == CreateLeased \/ ClaimDefault \/ CompleteOwn \/ FailOwn \/ Tick \/ CanWrite

SpecRevoked == Init /\ [][NextRevoked]_vars

\* A client that polls its inbox, one request after the other, while a
\* thread is started and messages are posted to it
NextPolling == Start \/ Post \/ PollAwaited \/ PollCreated \/ PollFinished

SpecPolling == Init /\ [][NextPolling]_vars

\* The poller of the extension, with its interval timer, while a task is
\* created, claimed and completed
NextPoller ==
    \/ CreateFirst
    \/ ClaimDefault
    \/ CompleteOwn
    \/ PollTimer
    \/ PollCreated
    \/ PollFinished

SpecPoller == Init /\ [][NextPoller]_vars

\* The queue on a disk that fails.  The event loop resumes a promise whose
\* predecessor has settled and a file operation returns or throws: the head
\* of the chain always gets its next step.
NextQueueFaulty == EnqueueFirst \/ Run \/ RunFailed

SpecQueueLive == InitFaulty /\ [][NextQueueFaulty]_vars /\ WF_vars(Run \/ RunFailed)

----------------------------------------------------------------------------
(* Properties *)

HasLease(t) == t \in DOMAIN tasks /\ tasks[t].lease /= Null

CurrentLease(t) == tasks[t].lease[1]

\* a step that handles complete or fail for (t, agentId, epoch)
FinalizeStep(t, agentId, epoch) == CompleteTask(t, agentId, epoch) \/ FailTask(t, agentId, epoch)

\* C1: in every persisted state, a task has a lease if and only if its
\* status is in_progress.
C1_LeaseIffInProgress ==
    \A t \in DOMAIN tasks : (tasks[t].lease /= Null) <=> (tasks[t].status = "in_progress")

\* a task that was claimed and then completed: its lease is gone
C1_Witness ==
    \E t \in DOMAIN tasks :
        /\ tasks[t].status = "completed"
        /\ tasks[t].epoch > 0
        /\ tasks[t].lease = Null
        /\ resp.op = "complete" /\ resp.status = 200

\* C2: of the claims on one task handled at the same instant, one is
\* answered 200 and every later one 409 TASK_NOT_CLAIMABLE, whatever ttlMs
\* they carry: a claim that follows a successful claim on the same task,
\* with no time elapsed, is rejected and leaves the task alone.
C2_OneWinner ==
    [][\A t \in DOMAIN tasks, a \in Agents, ttl \in TtlInputs :
          (/\ resp.op = "claim" /\ resp.status = 200 /\ resp.task = t /\ resp.at = now
           /\ ClaimTask(t, a, ttl))
          => (/\ resp'.status = 409
              /\ resp'.code = "TASK_NOT_CLAIMABLE"
              /\ tasks' = tasks)]_vars

\* C3 as stated: a complete or fail whose epoch differs from the lease's
\* epoch is answered 409 EPOCH_MISMATCH and leaves the task unchanged.
C3_AlwaysEpochMismatch ==
    [][\A t \in DOMAIN tasks, a \in Agents, e \in 0..MaxEpoch :
          (HasLease(t) /\ CurrentLease(t).epoch /= e /\ FinalizeStep(t, a, e))
          => (/\ resp'.status = 409
              /\ resp'.code = "EPOCH_MISMATCH"
              /\ tasks' = tasks)]_vars

\* C3, amended: a complete or fail whose epoch differs from the lease's
\* epoch is always rejected and leaves the task unchanged; the answer is
\* 403 LEASE_EXPIRED when the lease has expired, else 403
\* LEASE_HOLDER_MISMATCH when the agent is not the holder, else 409
\* EPOCH_MISMATCH.
C3_StaleEpochRejected ==
    [][\A t \in DOMAIN tasks, a \in Agents, e \in 0..MaxEpoch :
          (HasLease(t) /\ CurrentLease(t).epoch /= e /\ FinalizeStep(t, a, e))
          => (/\ tasks' = tasks
              /\ <<resp'.status, resp'.code>> =
                    IF now >= CurrentLease(t).expiresAt THEN <<403, "LEASE_EXPIRED">>
                    ELSE IF CurrentLease(t).holder /= a THEN <<403, "LEASE_HOLDER_MISMATCH">>
                    ELSE <<409, "EPOCH_MISMATCH">>)]_vars

\* the holder of an unexpired lease of the second claim cycle was answered
\* 409 EPOCH_MISMATCH, and the task is still in progress
C3_Witness ==
    /\ resp.op \in {"complete", "fail"}
    /\ resp.status = 409
    /\ resp.code = "EPOCH_MISMATCH"
    /\ HasLease(resp.task)
    /\ CurrentLease(resp.task).holder = resp.agent
    /\ CurrentLease(resp.task).epoch = 2
    /\ tasks[resp.task].status = "in_progress"

\* C4: a complete, fail or renew handled after the lease's expiresAt is
\* answered 403 LEASE_EXPIRED, whoever sends it and whatever epoch it
\* carries (the holder with the lease's epoch included), and the task is
\* left unchanged.
C4_ExpiredLeaseRejected ==
    [][\A t \in DOMAIN tasks, a \in Agents, e \in 0..MaxEpoch :
          (/\ HasLease(t)
           /\ now > CurrentLease(t).expiresAt
           /\ \/ FinalizeStep(t, a, e)
              \/ \E ttl \in TtlInputs : RenewTask(t, a, e, ttl))
          => (/\ resp'.status = 403
              /\ resp'.code = "LEASE_EXPIRED"
              /\ tasks' = tasks)]_vars

\* the holder of an expired lease was answered 403 LEASE_EXPIRED to a renew
C4_Witness ==
    /\ resp.op = "renew"
    /\ resp.status = 403
    /\ resp.code = "LEASE_EXPIRED"
    /\ HasLease(resp.task)
    /\ CurrentLease(resp.task).holder = resp.agent
    /\ now > CurrentLease(resp.task).expiresAt
    /\ resp.at = now

\* C5: a task's epoch never decreases; only a claim changes it, and a
\* successful claim returns an epoch greater than the task's epoch before
\* it, so the epochs of successive successful claims strictly increase.
C5_EpochMonotonic ==
    [][\A t \in DOMAIN tasks :
          /\ tasks'[t].epoch >= tasks[t].epoch
          /\ tasks'[t].epoch /= tasks[t].epoch => (resp'.op = "claim" /\ resp'.task = t)
          /\ \A a \in Agents, ttl \in TtlInputs :
                (ClaimTask(t, a, ttl) /\ resp'.status = 200)
                => (resp'.epoch > tasks[t].epoch /\ resp'.epoch = tasks'[t].epoch)]_vars

\* a second successful claim on a task returned epoch 2
C5_Witness ==
    /\ resp.op = "claim"
    /\ resp.status = 200
    /\ resp.epoch = 2
    /\ tasks[resp.task].epoch = 2

\* C6: for every path, canWrite allows at most one agent.
C6_OneWriterPerPath ==
    \A path \in PathInputs :
        Cardinality({a \in Agents : canWrite(a, path).allow}) <= 1

\* C7: a createTask that carries a key already recorded for a task answers
\* 200 with created = false and that task, whatever its payload, and
\* creates nothing.
C7_SameKeySameTask ==
    [][\A title \in Titles, deps \in DepInputs, resources \in ResourceInputs, key \in Keys :
          (recordedTask(key) /= 0 /\ CreateTask(title, deps, resources, key))
          => (/\ resp'.status = 200
              /\ resp'.created = FALSE
              /\ resp'.task = recordedTask(key)
              /\ tasks' = tasks)]_vars

\* C8: a request that fails (500) leaves the files as they were.
C8_NoPartialCommit ==
    [][resp'.status = 500 => disk' = disk]_vars

\* C9: per agent, nextCursor never decreases and every event appended to
\* the inbox gets a cursor above every cursor assigned before.
C9_CursorsMonotonic ==
    [][\A a \in Agents :
          /\ inbox'[a].nextCursor >= inbox[a].nextCursor
          /\ \A i \in DOMAIN inbox'[a].events :
                (i > Len(inbox[a].events) \/ inbox'[a].events[i] /= inbox[a].events[i])
                => inbox'[a].events[i].cursor > lastCursor[a]]_vars

\* C10: two daemon instances never both run with the lock of the team held.
C10_OneInstance ==
    Cardinality({p \in Procs : procs[p].pc = "running"}) <= 1

\* acquireLock has returned for p, and p has not released the lock
Acquired(p) == procs[p].pc \in {"store", "serve", "running"}

\* C11: a start that found the lock of a dead process, removed it and
\* acquired the lock on its single retry holds the lock file, with its own
\* pid in it.
C11_ReclaimHoldsLock ==
    \A p \in Procs :
        (Acquired(p) /\ procs[p].attempt = 1)
        => lockFile = Some([owner |-> p, pid |-> p])

\* C12: a start that fails after acquireLock returned (store
\* initialization, listener bind, runtime file) removes the lock file, and
\* so does close().
C12_LockReleased ==
    [][\A p \in Procs :
          (Acquired(p) /\ procs'[p].pc \in {"failed", "closed"})
          => lockFile' = Null]_vars

\* u is blocked and t is the only one of its dependencies not completed
BlockedOnlyOn(u, t) ==
    /\ tasks[u].status = "blocked"
    /\ t \in tasks[u].deps
    /\ \A d \in tasks[u].deps \ {t} : Exists(d) /\ tasks[d].status = "completed"

\* C14: when a complete request is answered 200, the task is completed and
\* every task that was blocked only on it is pending, in the state every
\* later read sees; a completed task stays completed.
C14_CompleteUnblocks ==
    [][/\ \A t \in TaskIds, a \in Agents, e \in 0..MaxEpoch :
            (CompleteTask(t, a, e) /\ resp'.status = 200)
            => /\ tasks'[t].status = "completed"
               /\ \A u \in DOMAIN tasks :
                     BlockedOnlyOn(u, t) => tasks'[u].status = "pending"
       /\ \A c \in DOMAIN tasks :
            tasks[c].status = "completed" => tasks'[c].status = "completed"]_vars

\* a completion was answered 200 and a task that depends on it is pending
C14_Witness ==
    /\ resp.op = "complete" /\ resp.status = 200
    /\ \E u \in DOMAIN tasks :
          /\ u /= resp.task
          /\ resp.task \in tasks[u].deps
          /\ tasks[u].status = "pending"

\* C15: in every state of the task files, a task is blocked exactly when
\* one of its dependencies is not completed.
C15_BlockedIffOpenDep ==
    \A u \in DOMAIN tasks :
        tasks[u].status = "blocked"
        <=> \E d \in tasks[u].deps : ~(Exists(d) /\ tasks[d].status = "completed")

\* C16: the operations that write run one after the other: when a fetch
\* writes the inbox file it found missing, no other operation has written
\* that file since the fetch read it.
C16_FetchWritesSerialized ==
    [][\A a \in Agents, since \in SinceInputs :
          (FetchInboxCreate(a, since) /\ inbox'[a] /= inbox[a]) => ~inbox[a].exists]_vars

\* resource is the path or one of the directories above it
EqualOrParent(resource, path) ==
    /\ Len(resource) <= Len(path)
    /\ \A i \in 1..Len(resource) : resource[i] = path[i]

\* some task is in progress with a lease of agentId that has not run out
\* and lists a resource that is path or a parent of it
HoldsLeaseOn(agentId, path) ==
    \E t \in DOMAIN tasks :
        /\ tasks[t].status = "in_progress"
        /\ tasks[t].lease /= Null
        /\ tasks[t].lease[1].holder = agentId
        /\ tasks[t].lease[1].expiresAt > now
        /\ \E r \in tasks[t].resources : EqualOrParent(r, path)

CanWriteReasons == {"invalid_path", "path_traversal_denied", "no_active_lease_for_path"}

C13_TailKeepsPosted ==
    [][\A th \in DOMAIN threads :
          ReadThreadTail(th, 0)
          => /\ resp'.status = 200
             /\ SelectSeq(resp'.messages,
                          LAMBDA id : \E i \in DOMAIN posted[th] : posted[th][i] = id)
                = posted[th]]_vars

\* the outcomes of the probe that are failures
FailedFetches == {"network_error", "status_401", "bad_body", "null_body"}

\* C17: the client's canWrite allows only when discovery succeeded and the
\* daemon answered the probe with allow = true; without discovery, and
\* when the probe fails (network error, status not 2xx, body that cannot
\* be used), it denies with missing_teamd_discovery or
\* can_write_check_failed.
C17_FailuresDeny ==
    [][guard'.probe /= Null
       => LET probe == guard'.probe[1]
              permission == guard'.permission[1]
          IN  /\ permission.allow
                 => /\ discover(probe.env) /= Null
                    /\ probe.fetched = "answer"
                    /\ canWrite(probe.env.agentId, probe.path).allow
              /\ (discover(probe.env) = Null \/ probe.fetched \in FailedFetches)
                 => /\ ~permission.allow
                    /\ permission.reason \in
                          {"missing_teamd_discovery", "can_write_check_failed"}]_guard

\* the client was asked and denied because the probe failed
C17_Witness ==
    /\ guard.probe /= Null
    /\ guard.probe[1].fetched = "bad_body"
    /\ guard.permission = Some(Permission(FALSE, "can_write_check_failed"))
    /\ guard.block

\* C18: a call of a guarded tool that comes without a context, or with a
\* context whose hasUI is false, is blocked.
C18_NoUiBlocks ==
    [][(guard'.tool \in GUARDED_TOOL_NAMES /\ (guard'.ctx = Null \/ ~guard'.ctx[1].hasUI))
       => guard'.block]_guard

\* C19: a call of a guarded tool is let through only after the client's
\* canWrite was asked and allowed, and is blocked otherwise with a reason
\* that mentions the lease.
C19_GuardedNeedsAllow ==
    [][guard'.tool \in GUARDED_TOOL_NAMES
       => IF guard'.permission /= Null /\ guard'.permission[1].allow
          THEN ~guard'.block
          ELSE guard'.block /\ guard'.reason \in {conservativeReason, leaseReason}]_guard

\* the audit log holds a record of this type for task t
Audited(type, t) ==
    \E i \in DOMAIN audit : audit[i].type = type /\ audit[i].taskId = t

\* the number of claims of task t the audit log records
AuditedClaims(t) ==
    Cardinality({i \in DOMAIN audit : audit[i].type = "task_claimed" /\ audit[i].taskId = t})

\* C21: whatever the task files show, the audit log already holds: a task
\* that is there was created, each epoch it has reached was claimed, and a
\* completed or failed task has the record of that transition.
C21_AuditedBeforeVisible ==
    \A t \in DOMAIN tasks :
        /\ Audited("task_created", t)
        /\ AuditedClaims(t) >= tasks[t].epoch
        /\ tasks[t].status = "completed" => Audited("task_completed", t)
        /\ tasks[t].status = "failed" => Audited("task_failed", t)

\* the operations that made the records of the audit log, in the log's order
auditWriters ==
    LET recs == SelectSeq(applied, LAMBDA a : a.kind = "audit")
    IN  [i \in DOMAIN recs |-> recs[i].id]

\* every write of operation a was made before every write of operation b
EffectsBefore(a, b) ==
    \A i, j \in DOMAIN applied :
        (applied[i].id = a /\ applied[j].id = b) => i < j

\* C22: the audit records of two operations accepted by the queue are not
\* interleaved, and they stand in the audit log in the order in which the
\* operations' effects were applied, which is the order of acceptance
C22_AuditOrderIsEffectOrder ==
    /\ Len(auditWriters) = Len(audit)
    /\ \A i, j \in DOMAIN auditWriters :
          (i < j /\ auditWriters[i] /= auditWriters[j]) =>
              /\ auditWriters[i] < auditWriters[j]
              /\ EffectsBefore(auditWriters[i], auditWriters[j])

\* two operations are in the queue together: the first has written its
\* task file and its audit record and still has writes to make (it goes on
\* to unblock a dependent), the second waits behind it, and the log already
\* holds the records of earlier operations
C22_Witness ==
    /\ Len(mutationTail) = 2
    /\ mutationTail[1].plan /= Null
    /\ mutationTail[2].plan = Null
    /\ \E i, j \in DOMAIN auditWriters :
          /\ i < j
          /\ auditWriters[i] /= mutationTail[1].id
          /\ auditWriters[j] = mutationTail[1].id

\* the header carries the daemon's token as a bearer credential
PresentsToken(header) ==
    /\ header /= Null
    /\ Len(header[1]) >= 2
    /\ header[1][1] = "Bearer"
    /\ header[1][2] = serverToken

\* the server answers the request that arrived
Answers == resp = NoResponse /\ resp' /= NoResponse /\ request /= Null

\* C23: a request to a URL under /v1/ that does not carry the daemon's
\* token as a bearer credential is answered 401 UNAUTHORIZED and leaves
\* every file of the store as it was; GET /healthz is answered 200 with
\* or without a credential
C23_UnauthorizedTouchesNothing ==
    [][Answers =>
          /\ (startsWithV1(request[1].url) /\ ~PresentsToken(request[1].header)) =>
                /\ resp'.status = 401
                /\ resp'.code = "UNAUTHORIZED"
                /\ disk' = disk
          /\ (request[1].method = "GET" /\ request[1].url = <<"healthz">>) =>
                /\ resp'.op = "healthz"
                /\ resp'.status = 200]_vars

\* a claim of a pending task that came without the token was refused,
\* while other tasks are held under leases
C23_Witness ==
    /\ resp.status = 401
    /\ resp.code = "UNAUTHORIZED"
    /\ request /= Null
    /\ request[1].method = "POST"
    /\ Len(request[1].url) = 4
    /\ Exists(taskOf(request[1].url[3]))
    /\ tasks[taskOf(request[1].url[3])].status = "pending"
    /\ \E t \in DOMAIN tasks : tasks[t].status = "in_progress"

TerminalStatuses == {"completed", "failed", "canceled"}

\* C24: a task whose status is completed, failed or canceled keeps that
\* status and has no lease after every operation of the store: a claim, a
\* renewal, a completion or a failure addressed to it, and the completion
\* of a task it depends on or that depends on it
C24_TerminalStaysTerminal ==
    [][\A t \in DOMAIN tasks :
          tasks[t].status \in TerminalStatuses =>
             /\ tasks'[t].status = tasks[t].status
             /\ tasks'[t].lease = Null]_vars

\* a task was completed, which unblocked the task that depends on it, and
\* a later request addressed to the completed task was refused
C24_Witness ==
    \E t, u \in DOMAIN tasks :
        /\ tasks[t].status = "completed"
        /\ t \in tasks[u].deps
        /\ tasks[u].status = "pending"
        /\ resp.task = t
        /\ resp.status = 409

\* C25: no sequence of operations of the store leaves a task with the
\* status canceled
C25_NeverCanceled ==
    \A t \in DOMAIN tasks : tasks[t].status /= "canceled"

\* a task was claimed and failed, and another task was created after it
C25_Witness ==
    /\ Len(tasks) = MaxTasks
    /\ tasks[1].status = "failed"
    /\ tasks[1].epoch >= 1
    /\ resp.op = "create"

\* C26: in every reachable state a task that has a lease has the lease's
\* holder as its owner and the lease's epoch as its epoch
C26_LeaseMatchesTask ==
    \A t \in DOMAIN tasks :
        tasks[t].lease /= Null =>
            /\ tasks[t].owner = Some(tasks[t].lease[1].holder)
            /\ tasks[t].epoch = tasks[t].lease[1].epoch

\* a task whose first lease ran out was claimed by the other agent, who
\* then renewed the second lease
C26_Witness ==
    \E t \in DOMAIN tasks :
        /\ Audited("task_renewed", t)
        /\ tasks[t].lease /= Null
        /\ tasks[t].lease[1].epoch = 2
        /\ \E i \in DOMAIN audit :
              /\ audit[i].type = "task_claimed"
              /\ audit[i].actor /= tasks[t].lease[1].holder
        /\ audit[Len(audit)].type = "task_renewed"
        /\ audit[Len(audit)].actor = tasks[t].lease[1].holder

\* C27: an agent identifier outside [A-Za-z0-9._-]+ is never recorded as
\* the owner of a task or the holder of its lease, and the request that
\* carries it is rejected
C27_AgentIdsWellFormed ==
    /\ \A t \in DOMAIN tasks :
          /\ tasks[t].owner /= Null => ensureAgentId(tasks[t].owner[1])
          /\ tasks[t].lease /= Null => ensureAgentId(tasks[t].lease[1].holder)
    /\ (resp.op = "claim" /\ ~ensureAgentId(resp.agent)) => resp.status >= 400

\* C28: a request to createTask, startThread or postThreadMessage that
\* repeats an earlier successful request under the same Idempotency-Key is
\* answered with what the first one was answered with (the same task, the
\* same thread, the same message), so that nothing is created twice
C28_RepeatedKeyCreatesNothing ==
    (request /= Null /\ request[1].first /= Null /\ resp /= NoResponse) =>
        /\ resp.task = request[1].first[1].task
        /\ resp.thread = request[1].first[1].thread
        /\ resp.messages = request[1].first[1].messages

\* some existing segment of the path is a symbolic link whose real target
\* is outside the root
RECURSIVE EscapesThroughLink(_, _, _)
EscapesThroughLink(fs, current, parts) ==
    /\ parts /= << >>
    /\ LET next == Append(current, Head(parts))
       IN  /\ next \in DOMAIN fs
           /\ IF fs[next].kind /= "link" THEN EscapesThroughLink(fs, next, Tail(parts))
              ELSE /\ fs[next].target /= Null
                   /\ \/ fs[next].target[1].outside
                      \/ EscapesThroughLink(fs, fs[next].target[1].path, Tail(parts))

\* C29: safeJoin fails or returns the real root extended by the
\* normalization of the relative path, which has no ".." segment; an
\* absolute input and an input with a ".." segment are rejected with
\* PATH_TRAVERSAL; an input that passes through a link to the outside is
\* rejected with SYMLINK_ESCAPE
C29_SafeJoinContract ==
    (io.call = "safeJoin" /\ io.result /= Null) =>
        LET r == io.result[1]
        IN  /\ r.ok => (r.path = normalize(io.relative) /\ ~hasTraversal(r.path))
            /\ (isAbsolute(io.relative) \/ hasTraversal(io.relative)) =>
                  (~r.ok /\ r.code = "PATH_TRAVERSAL")
            /\ (~isAbsolute(io.relative) /\ ~hasTraversal(io.relative)
                /\ EscapesThroughLink(io.fs, << >>, normalize(io.relative))) =>
                  (~r.ok /\ r.code = "SYMLINK_ESCAPE")

C31_CreatedIff201 ==
    (resp.op \in {"create", "createTeam"} /\ resp.status \in {200, 201}) =>
        (resp.status = 201 <=> resp.created)

\* C32: a claim of a task that is in progress under an expired lease
\* succeeds, whoever sends it: the task is in progress again, owned by the
\* claimant, under a lease the claimant holds whose epoch is greater than
\* the expired lease's
C32_ExpiredLeaseIsClaimable ==
    [][\A t \in DOMAIN tasks :
          (/\ now' = now
           /\ resp'.op = "claim"
           /\ resp'.task = t
           /\ tasks[t].status = "in_progress"
           /\ tasks[t].lease /= Null
           /\ isLeaseExpired(tasks[t].lease[1])) =>
              /\ resp'.status = 200
              /\ tasks'[t].status = "in_progress"
              /\ tasks'[t].owner = Some(resp'.agent)
              /\ tasks'[t].lease /= Null
              /\ tasks'[t].lease[1].holder = resp'.agent
              /\ tasks'[t].lease[1].epoch > tasks[t].lease[1].epoch]_vars

\* the agent that did not hold the first lease has just claimed the task
\* again after that lease ran out
C32_Witness ==
    \E t \in DOMAIN tasks :
        /\ resp.op = "claim"
        /\ resp.task = t
        /\ resp.status = 200
        /\ resp.epoch = 2
        /\ tasks[t].lease /= Null
        /\ tasks[t].lease[1].epoch = 2
        /\ \E i \in DOMAIN audit :
              /\ audit[i].type = "task_claimed"
              /\ audit[i].actor /= resp.agent

\* C33: an accepted renewal leaves the lease expiring later than it did
\* before, whatever ttlMs it carries, and leaves the holder, the epoch, the
\* owner and the status as they were
C33_RenewPushesForward ==
    [][\A t \in DOMAIN tasks :
          (/\ now' = now
           /\ resp'.op = "renew"
           /\ resp'.task = t
           /\ resp'.status = 200
           /\ tasks[t].lease /= Null) =>
              /\ tasks'[t].lease /= Null
              /\ tasks'[t].lease[1].expiresAt > tasks[t].lease[1].expiresAt
              /\ tasks'[t].lease[1].holder = tasks[t].lease[1].holder
              /\ tasks'[t].lease[1].epoch = tasks[t].lease[1].epoch
              /\ tasks'[t].owner = tasks[t].owner
              /\ tasks'[t].status = tasks[t].status]_vars

\* the agents a broadcast has to reach: those team.json configures and those
\* with an inbox file
KnownAgents == team.agents \cup {a \in Agents : inbox[a].exists}

\* the inbox type that goes with a request
EventTypeOf(op) ==
    CASE op = "claim" -> "task_claimed"
      [] op = "complete" -> "task_completed"
      [] op = "fail" -> "task_failed"
      [] OTHER -> "none"

\* C34: a successful claim, complete or fail appends exactly one event of
\* the matching type, naming the task and the acting agent, to the inbox of
\* every agent that team.json configures or that has an inbox file, the
\* acting agent included
C34_BroadcastReachesKnownAgents ==
    [][(/\ now' = now
        /\ resp' /= resp
        /\ resp'.op \in {"claim", "complete", "fail"}
        /\ resp'.status = 200) =>
           \A a \in KnownAgents :
               /\ inbox'[a].exists
               /\ Len(inbox'[a].events) = Len(inbox[a].events) + 1
               /\ SubSeq(inbox'[a].events, 1, Len(inbox[a].events)) = inbox[a].events
               /\ LET e == inbox'[a].events[Len(inbox'[a].events)]
                  IN  /\ e.type = EventTypeOf(resp'.op)
                      /\ e.taskId = resp'.task
                      /\ e.actor = resp'.agent]_vars

\* agent b, known through team.json, completes a task while agent a is known
\* through its inbox file: both inboxes hold the completion
C34_Witness ==
    /\ team.agents = {"b"}
    /\ resp.op = "complete" /\ resp.status = 200 /\ resp.agent = "b"
    /\ \A a \in Agents :
          /\ inbox[a].exists
          /\ Len(inbox[a].events) = 2
          /\ inbox[a].events[1].type = "task_claimed"
          /\ inbox[a].events[2].type = "task_completed"
          /\ inbox[a].events[2].actor = "b"

\* the status codes of a refusal
RejectedStatuses == {400, 403, 404, 409}

\* C35: a request answered 400, 403, 404 or 409 leaves the task records, the
\* idempotency map, the audit log, the inboxes, the thread index and the
\* thread files as they were
C35_RejectionWritesNothing ==
    [][(now' = now /\ resp' /= resp /\ resp'.status \in RejectedStatuses) =>
          disk' = disk]_vars

\* the agent of the most recent claim of task t the audit log records
LastClaimant(t) ==
    LET claims == {i \in DOMAIN audit :
                      audit[i].type = "task_claimed" /\ audit[i].taskId = t}
    IN  IF claims = {} THEN ""
        ELSE audit[CHOOSE i \in claims : \A j \in claims : j <= i].actor

\* the number of completions and failures of task t the audit log records
AuditedFinals(t) ==
    Cardinality({i \in DOMAIN audit :
                    /\ audit[i].type \in {"task_completed", "task_failed"}
                    /\ audit[i].taskId = t})

\* C36: a task becomes completed or failed only in a complete or fail
\* request that names the agent and the epoch of the task's most recent
\* successful claim and is handled while the lease of that claim, as last
\* renewed, has not expired; and no task is finalized twice
C36_FinalizedOnceByLastClaimant ==
    [][\A t \in DOMAIN tasks :
          /\ (tasks[t].status \in TerminalStatuses => tasks'[t] = tasks[t])
          /\ AuditedFinals(t)' <= 1
          /\ (tasks[t].status \notin TerminalStatuses
              /\ tasks'[t].status \in {"completed", "failed"}) =>
                /\ tasks[t].status = "in_progress"
                /\ tasks[t].lease /= Null
                /\ now < tasks[t].lease[1].expiresAt
                /\ LastClaimant(t) = tasks[t].lease[1].holder
                /\ AuditedClaims(t) = tasks[t].lease[1].epoch
                /\ \E e \in 0..MaxEpoch :
                      /\ e = AuditedClaims(t)
                      /\ \/ CompleteTask(t, LastClaimant(t), e)
                         \/ FailTask(t, LastClaimant(t), e)
                /\ \A a \in Agents, e \in 0..MaxEpoch :
                      (CompleteTask(t, a, e) \/ FailTask(t, a, e)) =>
                          (a = LastClaimant(t) /\ e = AuditedClaims(t))]_vars

\* agent a's lease ran out, agent b claimed the task under epoch 2 and
\* completed it
C36_Witness ==
    \E t \in DOMAIN tasks :
        /\ tasks[t].status = "completed"
        /\ tasks[t].epoch = 2
        /\ resp.op = "complete" /\ resp.status = 200 /\ resp.task = t
        /\ LastClaimant(t) = resp.agent
        /\ AuditedClaims(t) = 2
        /\ \E i \in DOMAIN audit :
              audit[i].type = "task_claimed" /\ audit[i].actor /= resp.agent

\* task t is in progress under a lease of agent a that has not expired and
\* lists a resource that is the path or a parent of it
LiveLeaseCovers(t, a, safePath) ==
    /\ tasks[t].status = "in_progress"
    /\ tasks[t].lease /= Null
    /\ tasks[t].lease[1].holder = a
    /\ now < tasks[t].lease[1].expiresAt
    /\ \E r \in tasks[t].resources : EqualOrParent(r, safePath)

\* task t no longer gives anyone a permission: it is completed or failed,
\* or the expiresAt of its lease has passed
Revoked(t) ==
    \/ tasks[t].status \in {"completed", "failed"}
    \/ tasks[t].lease /= Null /\ tasks[t].lease[1].expiresAt <= now

\* C37: canWrite answers allow = true only to the holder of an unexpired
\* lease of a task in progress that covers the path; once a task is
\* completed or failed or its lease's expiresAt has passed, the very next
\* canWrite denies every path no other task covers, with no mutation in
\* between
C37_RevokedAtOnce ==
    [][(now' = now /\ resp'.op = "canWrite") =>
          LET safePath == normalizePathPrefix(resp'.path)
          IN  /\ resp'.allow =>
                    \E t \in DOMAIN tasks : LiveLeaseCovers(t, resp'.agent, safePath)
              /\ \A t \in DOMAIN tasks :
                    (/\ Revoked(t)
                     /\ \A u \in DOMAIN tasks \ {t} :
                           ~LiveLeaseCovers(u, resp'.agent, safePath)) =>
                        ~resp'.allow]_vars

\* the lease ran out with no request after the claim, and the holder's probe
\* of a path below the leased resource is denied
C37_Witness ==
    /\ resp.op = "canWrite" /\ ~resp.allow /\ resp.at = now
    /\ resp.path = <<"src", "io", "x">>
    /\ Len(audit) = 2
    /\ \E t \in DOMAIN tasks :
          /\ tasks[t].status = "in_progress"
          /\ tasks[t].lease /= Null
          /\ tasks[t].lease[1].holder = resp.agent
          /\ tasks[t].lease[1].expiresAt <= now
          /\ <<"src">> \in tasks[t].resources

\* the cursors of the events the poller has passed on, in the order it
\* passed them on
ForwardedCursors == [i \in DOMAIN poller.forwarded |-> poller.forwarded[i].cursor]

\* the poller has nothing in flight, and its last poll read the inbox after
\* every event appended so far
CaughtUp ==
    /\ poller.inflight = << >>
    /\ poller.started
    /\ poller.readAt = lastCursor[PollAgent]

\* C38: a client that polls with the nextSince of its previous answer gets
\* every event appended to its inbox exactly once and in increasing cursor
\* order, whatever mutations run between and during its polls (once it has
\* caught up it holds the events of cursor 1, 2, ... up to the last cursor
\* assigned), and its nextSince never decreases
C38_PollsDeliverEveryEventOnce ==
    [][/\ poller'.sinceCursor >= poller.sinceCursor
       /\ \A i, j \in DOMAIN poller'.forwarded :
             i < j => poller'.forwarded[i].cursor < poller'.forwarded[j].cursor
       /\ CaughtUp' => ForwardedCursors' = [i \in 1..lastCursor'[PollAgent] |-> i]]_vars

\* C39: the poller passes each inbox event on to the steering channel at
\* most once, also when the interval timer starts a poll while the poll
\* before it is in flight
C39_ForwardedAtMostOnce ==
    \A i, j \in DOMAIN poller.forwarded :
        i /= j => poller.forwarded[i] /= poller.forwarded[j]

\* the operation with this number is in the chain: accepted and not settled
Waiting(id) == \E i \in DOMAIN mutationTail : mutationTail[i].id = id

\* the answer belongs to the request of operation m
AnswerOf(r, m) ==
    /\ r.op = m.req.op
    /\ m.req.op /= "create" => (r.task = m.req.task /\ r.agent = m.req.agent)

\* C40: the chain is worked off from its head, one operation at a time and
\* in the order of submission; an operation that settles, fulfilled or
\* rejected, hands its caller the answer to its own request; and every
\* accepted operation settles in the end, whatever failed before it
C40_QueueDrains ==
    /\ [][\/ mutationTail' = mutationTail
          \/ /\ Len(mutationTail') = Len(mutationTail) + 1
             /\ SubSeq(mutationTail', 1, Len(mutationTail)) = mutationTail
          \/ /\ mutationTail /= << >>
             /\ Len(mutationTail') = Len(mutationTail)
             /\ Tail(mutationTail') = Tail(mutationTail)
             /\ mutationTail'[1].id = mutationTail[1].id
          \/ /\ mutationTail /= << >>
             /\ mutationTail' = Tail(mutationTail)
             /\ AnswerOf(resp', mutationTail[1])]_vars
    /\ \A id \in 1..MaxMutations : Waiting(id) ~> ~Waiting(id)

\* a file operation failed, the first operation of the chain wrote nothing,
\* and an operation accepted after it has made its writes and been answered
C40_Witness ==
    /\ faults < MaxFaults
    /\ mutationTail = << >>
    /\ resp.status \in {200, 201}
    /\ applied /= << >>
    /\ \A i \in DOMAIN applied : applied[i].id > 1

====
